---- MODULE Spec2Model ----
(***************************************************************************)
(* State-machine model of the SpeeduinoR4 SLCAN gateway: the SLCAN        *)
(* protocol handler (SLCAN.cpp), the RA4M1 controller adapter with its    *)
(* software transmit queue and acceptance filter (RA4M1CAN.cpp), the      *)
(* dispatcher and the cooperative main loop (main.cpp).                   *)
(*                                                                         *)
(* Text is modelled as sequences of one-character strings; "BEL" stands   *)
(* for the byte 0x07, "CR" for '\r' and "NUL" for the terminator read     *)
(* past the end of a C string.                                            *)
(***************************************************************************)
EXTENDS Integers, Sequences, FiniteSets, TLC

(***************************************************************************)
(* Bounds of the model.  The buffer sizes and the per-iteration limits    *)
(* are config.h values scaled down (128, 24, 6 and 4 in the source) so    *)
(* that the full-buffer and limit-reached cases are within reach.         *)
(***************************************************************************)
CAN_RX_QUEUE_SIZE == 4
CAN_TX_QUEUE_SIZE == 2
MAX_FRAMES_PER_POLL == 2
MAX_CMDS_PER_LOOP == 2
HwTxSlots == 1
HwRxSlots == 4
MaxBusFrames == 1
MaxRxBurst == 4
MaxTxCmds == 4
MaxGateTx == 2
MaxOverflow == 2
MaxPairFrames == 2
MaxRespDrops == 2
MaxWrites == 1
ClockMod == 32
MaxParseTx == 1
\* capacity of the dispatcher's handler array (4 in config.h)
MAX_PROTOCOL_HANDLERS == 3

SERIAL_CMD_QUEUE_SIZE == 3
SERIAL_RX_BUFFER_SIZE == 3
MaxIncoming == 4
MaxLines == 4
MaxCmdOverflow == 2

(***************************************************************************)
(* Program constants.                                                      *)
(***************************************************************************)
SLCAN_STD_ID_LEN == 3
SLCAN_EXT_ID_LEN == 8
SLCAN_DLC_LEN == 1
SLCAN_TIMESTAMP_LEN == 4
SLCAN_MAX_EXT_FRAME_LEN == 1 + SLCAN_EXT_ID_LEN + SLCAN_DLC_LEN + 16 + SLCAN_TIMESTAMP_LEN + 1
SLCAN_BITRATE_500K == 6
WRITE_TIMEOUT_MS == 10
SLCAN_STATUS_RX_FULL == 1
SLCAN_STATUS_TX_FULL == 2
SLCAN_STATUS_DATA_OVERRUN == 8
CMD_BUFFER_SIZE == 64

SLCAN_ERROR == "BEL"
SLCAN_TX_OK_STD == "z"
SLCAN_TX_OK_EXT == "Z"

VARIABLES
    slcan,          \* the SLCAN handler object (fields of class SLCAN)
    can,            \* the RA4M1CAN adapter object (fields of class RA4M1CAN)
    hw,             \* the Arduino_CAN controller behind the adapter
    cmdBuffer,      \* main.cpp cmdBuffer: the last line read
    responseBuffer, \* main.cpp responseBuffer: the last response produced
    hasResponse,    \* main.cpp hasResponse of the last dispatch
    cmdsProcessed,  \* main.cpp loop counter of the current iteration
    transport,      \* the SerialTransport object (fields of class SerialTransport)
    hostOut,        \* frame lines written to the host by poll, in order
    hostResp,       \* bytes the host received in answer to the last command
    busCount,       \* frames the bus has delivered so far
    txCount,        \* calls of the adapter's write made so far
    rxDropped,      \* numbers of the bus frames an overflow was counted for
    ret,            \* return value of the last direct call of a method
    serial,         \* the Serial stream: free space, millis() clock, bytes from the host
    writer,         \* the writeWithPriority call in progress, when stepped through
    trip,           \* the last formatFrame / parseFrame round trip made directly
    dispatcher      \* ProtocolDispatcher: _handlers, _handlerCount; last call made on it

vars == <<slcan, can, hw, cmdBuffer, responseBuffer, hasResponse,
          cmdsProcessed, transport, hostOut, hostResp, busCount, txCount,
          rxDropped, ret,
          serial, writer, trip, dispatcher>>

(***************************************************************************)
(* Hex helpers (SLCAN.cpp, "Helper Functions").                            *)
(***************************************************************************)
HexUpper == <<"0","1","2","3","4","5","6","7","8","9","A","B","C","D","E","F">>
HexLower == <<"0","1","2","3","4","5","6","7","8","9","a","b","c","d","e","f">>

Range(f) == {f[i] : i \in DOMAIN f}

\* cmd[i] of a C string (0-based); the terminator is read at the end
At(str, i) == IF i < Len(str) THEN str[i + 1] ELSE "NUL"

\* cmd + n
Skip(str, n) == IF n >= Len(str) THEN <<>> ELSE SubSeq(str, n + 1, Len(str))

HexChars == Range(HexUpper) \cup Range(HexLower)

\* value of each hex digit character
NibbleOf ==
    [c \in HexChars |->
        IF c \in Range(HexUpper) THEN (CHOOSE i \in 1..16 : HexUpper[i] = c) - 1
        ELSE (CHOOSE i \in 1..16 : HexLower[i] = c) - 1]

isHexChar(c) == c \in HexChars

hexCharToNibble(c) == IF c \in HexChars THEN NibbleOf[c] ELSE 0

nibbleToHexChar(n) == HexUpper[(n % 16) + 1]

RECURSIVE parseHexFrom(_, _, _, _)
parseHexFrom(str, i, len, value) ==
    IF i >= len THEN value
    ELSE parseHexFrom(str, i + 1, len, value * 16 + hexCharToNibble(At(str, i)))

parseHex(str, len) == parseHexFrom(str, 0, len, 0)

RECURSIVE formatHex(_, _)
formatHex(value, digits) ==
    IF digits = 0 THEN <<>>
    ELSE Append(formatHex(value \div 16, digits - 1), nibbleToHexChar(value % 16))

\* bitwise AND of two non-negative integers
RECURSIVE BitAnd(_, _)
BitAnd(a, b) ==
    IF a = 0 \/ b = 0 THEN 0
    ELSE (a % 2) * (b % 2) + 2 * BitAnd(a \div 2, b \div 2)

(***************************************************************************)
(* Frame model (CANBackend.h, struct CANFrame).                            *)
(***************************************************************************)
ZeroData == <<0, 0, 0, 0, 0, 0, 0, 0>>

CANFrame == [id |-> 0, dlc |-> 0, data |-> ZeroData, extended |-> FALSE,
             rtr |-> FALSE, timestamp |-> 0]

FrameSlot == [msg |-> CANFrame, timestamp |-> 0, valid |-> FALSE]

(***************************************************************************)
(* The Arduino_CAN controller (external collaborator).  txFree is the     *)
(* number of free hardware transmit slots: CAN.write succeeds iff one is  *)
(* free.  txLog is the sequence of frames handed to the hardware, rx the  *)
(* received messages waiting in the library's receive buffer.             *)
(***************************************************************************)
CAN_write(h, frame) ==
    IF h.txFree > 0
    THEN [rc |-> 1, hw |-> [h EXCEPT !.txFree = @ - 1, !.txLog = Append(@, frame)]]
    ELSE [rc |-> -1, hw |-> h]

CAN_begin(h) == [h EXCEPT !.started = TRUE]

CAN_end(h) == [h EXCEPT !.started = FALSE]

(***************************************************************************)
(* RA4M1CAN: the controller adapter.                                       *)
(***************************************************************************)
isBitrateSupported(bitrate) == bitrate \in {4, 5, 6, 8}

clearTxQueue(c) ==
    [c EXCEPT !.txQueueHead = 0, !.txQueueTail = 0, !.txQueueCount = 0]

\* end leaving the transmit queue as it is
RA4M1CAN_end_mutKeepQueue(c, h) ==
    IF c.isOpen
    THEN [can |-> [c EXCEPT !.isOpen = FALSE], hw |-> CAN_end(h)]
    ELSE [can |-> c, hw |-> h]

RA4M1CAN_end(c, h) ==
    IF c.isOpen
    THEN [can |-> clearTxQueue([c EXCEPT !.isOpen = FALSE]), hw |-> CAN_end(h)]
    ELSE [can |-> clearTxQueue(c), hw |-> h]

\* RA4M1CAN_begin marking the adapter open before CAN.begin() has answered
RA4M1CAN_begin_mutOpenFirst(c, h, bitrate, mode, devOk) ==
    IF ~isBitrateSupported(bitrate) THEN [ret |-> FALSE, can |-> c, hw |-> h]
    ELSE LET c1 == clearTxQueue(c)
             e  == IF c1.isOpen THEN RA4M1CAN_end(c1, h) ELSE [can |-> c1, hw |-> h]
             o  == [e.can EXCEPT !.isOpen = TRUE, !.mode = mode, !.bitrate = bitrate]
         IN  IF ~devOk THEN [ret |-> FALSE, can |-> o, hw |-> e.hw]
             ELSE [ret |-> TRUE, can |-> o, hw |-> CAN_begin(e.hw)]

\* devOk: whether CAN.begin() of the device succeeds
\* begin refusing the 1000K preset
RA4M1CAN_begin_mutNo1000K(c, h, bitrate, mode, devOk) ==
    IF bitrate \notin {4, 5, 6} THEN [ret |-> FALSE, can |-> c, hw |-> h]
    ELSE LET c1 == clearTxQueue(c)
             e  == IF c1.isOpen THEN RA4M1CAN_end(c1, h) ELSE [can |-> c1, hw |-> h]
         IN  IF ~devOk THEN [ret |-> FALSE, can |-> e.can, hw |-> e.hw]
             ELSE [ret |-> TRUE,
                   can |-> [e.can EXCEPT !.isOpen = TRUE, !.mode = mode,
                                         !.bitrate = bitrate],
                   hw  |-> CAN_begin(e.hw)]

RA4M1CAN_begin(c, h, bitrate, mode, devOk) ==
    IF ~isBitrateSupported(bitrate) THEN [ret |-> FALSE, can |-> c, hw |-> h]
    ELSE LET c1 == clearTxQueue(c)
             e  == IF c1.isOpen THEN RA4M1CAN_end(c1, h) ELSE [can |-> c1, hw |-> h]
         IN  IF ~devOk THEN [ret |-> FALSE, can |-> e.can, hw |-> e.hw]
             ELSE [ret |-> TRUE,
                   can |-> [e.can EXCEPT !.isOpen = TRUE, !.mode = mode,
                                         !.bitrate = bitrate],
                   hw  |-> CAN_begin(e.hw)]

\* RA4M1CAN_write without its listen-only refusal
RA4M1CAN_write_mutListenOnly(c, h, frame) ==
    IF ~c.isOpen THEN [ret |-> FALSE, can |-> c, hw |-> h]
    ELSE LET w  == IF c.txQueueCount = 0 THEN CAN_write(h, frame)
                   ELSE [rc |-> -1, hw |-> h]
         IN  IF c.txQueueCount = 0 /\ w.rc >= 0
             THEN [ret |-> TRUE, can |-> c, hw |-> w.hw]
             ELSE IF c.txQueueCount < CAN_TX_QUEUE_SIZE
             THEN [ret |-> TRUE,
                   can |-> [c EXCEPT !.txQueue[c.txQueueHead] = frame,
                                     !.txQueueHead = (@ + 1) % CAN_TX_QUEUE_SIZE,
                                     !.txQueueCount = @ + 1],
                   hw  |-> w.hw]
             ELSE [ret |-> FALSE,
                   can |-> [c EXCEPT !.txQueueFullCount = @ + 1],
                   hw  |-> w.hw]

\* RA4M1CAN_write trying the immediate send whether or not frames are queued
RA4M1CAN_write_mutSkipQueue(c, h, frame) ==
    IF ~c.isOpen THEN [ret |-> FALSE, can |-> c, hw |-> h]
    ELSE IF c.mode = "ListenOnly" THEN [ret |-> FALSE, can |-> c, hw |-> h]
    ELSE LET w  == CAN_write(h, frame)
         IN  IF w.rc >= 0
             THEN [ret |-> TRUE, can |-> c, hw |-> w.hw]
             ELSE IF c.txQueueCount < CAN_TX_QUEUE_SIZE
             THEN [ret |-> TRUE,
                   can |-> [c EXCEPT !.txQueue[c.txQueueHead] = frame,
                                     !.txQueueHead = (@ + 1) % CAN_TX_QUEUE_SIZE,
                                     !.txQueueCount = @ + 1],
                   hw  |-> w.hw]
             ELSE [ret |-> FALSE,
                   can |-> [c EXCEPT !.txQueueFullCount = @ + 1],
                   hw  |-> w.hw]

\* RA4M1CAN_write with the queue-space test off by one (<= for <)
RA4M1CAN_write_mutQueueBound(c, h, frame) ==
    IF ~c.isOpen THEN [ret |-> FALSE, can |-> c, hw |-> h]
    ELSE IF c.mode = "ListenOnly" THEN [ret |-> FALSE, can |-> c, hw |-> h]
    ELSE LET w  == IF c.txQueueCount = 0 THEN CAN_write(h, frame)
                   ELSE [rc |-> -1, hw |-> h]
         IN  IF c.txQueueCount = 0 /\ w.rc >= 0
             THEN [ret |-> TRUE, can |-> c, hw |-> w.hw]
             ELSE IF c.txQueueCount <= CAN_TX_QUEUE_SIZE
             THEN [ret |-> TRUE,
                   can |-> [c EXCEPT !.txQueue[c.txQueueHead] = frame,
                                     !.txQueueHead = (@ + 1) % CAN_TX_QUEUE_SIZE,
                                     !.txQueueCount = @ + 1],
                   hw  |-> w.hw]
             ELSE [ret |-> FALSE,
                   can |-> [c EXCEPT !.txQueueFullCount = @ + 1],
                   hw  |-> w.hw]

RA4M1CAN_write(c, h, frame) ==
    IF ~c.isOpen THEN [ret |-> FALSE, can |-> c, hw |-> h]
    ELSE IF c.mode = "ListenOnly" THEN [ret |-> FALSE, can |-> c, hw |-> h]
    ELSE LET w  == IF c.txQueueCount = 0 THEN CAN_write(h, frame)
                   ELSE [rc |-> -1, hw |-> h]
         IN  IF c.txQueueCount = 0 /\ w.rc >= 0
             THEN [ret |-> TRUE, can |-> c, hw |-> w.hw]
             ELSE IF c.txQueueCount < CAN_TX_QUEUE_SIZE
             THEN [ret |-> TRUE,
                   can |-> [c EXCEPT !.txQueue[c.txQueueHead] = frame,
                                     !.txQueueHead = (@ + 1) % CAN_TX_QUEUE_SIZE,
                                     !.txQueueCount = @ + 1],
                   hw  |-> w.hw]
             ELSE [ret |-> FALSE,
                   can |-> [c EXCEPT !.txQueueFullCount = @ + 1],
                   hw  |-> w.hw]

RA4M1CAN_available(c, h) ==
    IF ~c.isOpen THEN FALSE ELSE Len(h.rx) > 0

\* passesFilter comparing the masked identifier with the unmasked code
passesFilter_mutUnmaskedCode(c, id) ==
    IF ~c.filterEnabled THEN TRUE
    ELSE BitAnd(id, c.filterMask) = c.filterValue

passesFilter(c, id) ==
    IF ~c.filterEnabled THEN TRUE
    ELSE BitAnd(id, c.filterMask) = BitAnd(c.filterValue, c.filterMask)

\* now: the value of millis() at the call
RA4M1CAN_read(c, h, now) ==
    IF ~c.isOpen THEN [ret |-> FALSE, frame |-> CANFrame, can |-> c, hw |-> h]
    ELSE IF Len(h.rx) = 0 THEN [ret |-> FALSE, frame |-> CANFrame, can |-> c, hw |-> h]
    ELSE LET msg   == Head(h.rx)
             frame == [id |-> msg.id, dlc |-> msg.dlc,
                       data |-> [i \in 1..8 |-> IF i <= msg.dlc THEN msg.data[i] ELSE 0],
                       extended |-> msg.extended, rtr |-> FALSE,
                       timestamp |-> now % 65536]
             h1    == [h EXCEPT !.rx = Tail(@)]
         IN  IF c.filterEnabled /\ ~passesFilter(c, frame.id)
             THEN [ret |-> FALSE, frame |-> frame, can |-> c, hw |-> h1]
             ELSE [ret |-> TRUE, frame |-> frame, can |-> c, hw |-> h1]

RA4M1CAN_setFilter(c, mask, filter) ==
    [c EXCEPT !.filterMask = mask, !.filterValue = filter, !.filterEnabled = TRUE]

RA4M1CAN_clearFilter(c) ==
    [c EXCEPT !.filterMask = 0, !.filterValue = 0, !.filterEnabled = FALSE]

RECURSIVE serviceTxQueue(_, _)
serviceTxQueue(c, h) ==
    IF ~c.isOpen THEN [can |-> c, hw |-> h]
    ELSE IF c.txQueueCount > 0
    THEN LET w == CAN_write(h, c.txQueue[c.txQueueTail])
         IN  IF w.rc >= 0
             THEN serviceTxQueue([c EXCEPT !.txQueueTail = (@ + 1) % CAN_TX_QUEUE_SIZE,
                                           !.txQueueCount = @ - 1], w.hw)
             ELSE [can |-> c, hw |-> w.hw]
    ELSE [can |-> c, hw |-> h]

(***************************************************************************)
(* SLCAN: frame parsing and formatting.                                    *)
(***************************************************************************)
RECURSIVE parseData(_, _, _, _)
\* the data loop of parseFrame: ok is FALSE at the first non-hex digit
parseData(dataStr, i, dlc, data) ==
    IF i >= dlc THEN [ok |-> TRUE, data |-> data]
    ELSE IF ~isHexChar(At(dataStr, i * 2)) \/ ~isHexChar(At(dataStr, i * 2 + 1))
    THEN [ok |-> FALSE, data |-> data]
    ELSE parseData(dataStr, i + 1, dlc,
                   [data EXCEPT ![i + 1] = hexCharToNibble(At(dataStr, i * 2)) * 16
                                           + hexCharToNibble(At(dataStr, i * 2 + 1))])

\* parseFrame reading the data digits from the dlc position on
parseFrame_mutDataOffset(cmd, extended, rtr) ==
    LET idLen  == IF extended THEN SLCAN_EXT_ID_LEN ELSE SLCAN_STD_ID_LEN
        minLen == 1 + idLen + SLCAN_DLC_LEN
        idStr  == Skip(cmd, 1)
        id     == parseHex(idStr, idLen)
        dlcStr == Skip(cmd, 1 + idLen)
        dlc    == hexCharToNibble(At(dlcStr, 0))
        dataStr == Skip(cmd, 1 + idLen)
        bad    == [ok |-> FALSE, frame |-> CANFrame]
    IN  IF Len(cmd) < minLen THEN bad
        ELSE IF \E i \in 0..(idLen - 1) : ~isHexChar(At(idStr, i)) THEN bad
        ELSE IF ~extended /\ id > 2047 THEN bad
        ELSE IF extended /\ id > 536870911 THEN bad
        ELSE IF ~isHexChar(At(dlcStr, 0)) THEN bad
        ELSE IF dlc > 8 THEN bad
        ELSE IF ~rtr /\ Len(dataStr) < dlc * 2 THEN bad
        ELSE LET d == IF rtr THEN [ok |-> TRUE, data |-> ZeroData]
                      ELSE parseData(dataStr, 0, dlc, ZeroData)
             IN  IF ~d.ok THEN bad
                 ELSE [ok |-> TRUE,
                       frame |-> [id |-> id, dlc |-> dlc,
                                  data |-> [i \in 1..8 |-> IF i <= dlc THEN d.data[i] ELSE 0],
                                  extended |-> extended, rtr |-> rtr, timestamp |-> 0]]

\* parseFrame without its test of the data length code
parseFrame_mutNoDlcCheck(cmd, extended, rtr) ==
    LET idLen  == IF extended THEN SLCAN_EXT_ID_LEN ELSE SLCAN_STD_ID_LEN
        minLen == 1 + idLen + SLCAN_DLC_LEN
        idStr  == Skip(cmd, 1)
        id     == parseHex(idStr, idLen)
        dlcStr == Skip(cmd, 1 + idLen)
        dlc    == hexCharToNibble(At(dlcStr, 0))
        dataStr == Skip(cmd, 1 + idLen + SLCAN_DLC_LEN)
        bad    == [ok |-> FALSE, frame |-> CANFrame]
    IN  IF Len(cmd) < minLen THEN bad
        ELSE IF \E i \in 0..(idLen - 1) : ~isHexChar(At(idStr, i)) THEN bad
        ELSE IF ~extended /\ id > 2047 THEN bad
        ELSE IF extended /\ id > 536870911 THEN bad
        ELSE IF ~isHexChar(At(dlcStr, 0)) THEN bad
        ELSE IF ~rtr /\ Len(dataStr) < dlc * 2 THEN bad
        ELSE LET d == IF rtr THEN [ok |-> TRUE, data |-> ZeroData]
                      ELSE parseData(dataStr, 0, dlc, ZeroData)
             IN  IF ~d.ok THEN bad
                 ELSE [ok |-> TRUE,
                       frame |-> [id |-> id, dlc |-> dlc,
                                  data |-> [i \in 1..8 |-> IF i <= dlc THEN d.data[i] ELSE 0],
                                  extended |-> extended, rtr |-> rtr, timestamp |-> 0]]

parseFrame(cmd, extended, rtr) ==
    LET idLen  == IF extended THEN SLCAN_EXT_ID_LEN ELSE SLCAN_STD_ID_LEN
        minLen == 1 + idLen + SLCAN_DLC_LEN
        idStr  == Skip(cmd, 1)
        id     == parseHex(idStr, idLen)
        dlcStr == Skip(cmd, 1 + idLen)
        dlc    == hexCharToNibble(At(dlcStr, 0))
        dataStr == Skip(cmd, 1 + idLen + SLCAN_DLC_LEN)
        bad    == [ok |-> FALSE, frame |-> CANFrame]
    IN  IF Len(cmd) < minLen THEN bad
        ELSE IF \E i \in 0..(idLen - 1) : ~isHexChar(At(idStr, i)) THEN bad
        ELSE IF ~extended /\ id > 2047 THEN bad
        ELSE IF extended /\ id > 536870911 THEN bad
        ELSE IF ~isHexChar(At(dlcStr, 0)) THEN bad
        ELSE IF dlc > 8 THEN bad
        ELSE IF ~rtr /\ Len(dataStr) < dlc * 2 THEN bad
        ELSE LET d == IF rtr THEN [ok |-> TRUE, data |-> ZeroData]
                      ELSE parseData(dataStr, 0, dlc, ZeroData)
             IN  IF ~d.ok THEN bad
                 ELSE [ok |-> TRUE,
                       frame |-> [id |-> id, dlc |-> dlc,
                                  data |-> [i \in 1..8 |-> IF i <= dlc THEN d.data[i] ELSE 0],
                                  extended |-> extended, rtr |-> rtr, timestamp |-> 0]]

RECURSIVE formatData(_, _, _, _)
\* the data loop of formatFrame, bounded by i < dlc && pos + 2 < maxLen
formatData(frame, i, buffer, maxLen) ==
    IF i < frame.dlc /\ Len(buffer) + 2 < maxLen
    THEN formatData(frame, i + 1,
                    buffer \o <<nibbleToHexChar(frame.data[i + 1] \div 16),
                                nibbleToHexChar(frame.data[i + 1] % 16)>>, maxLen)
    ELSE buffer

\* formatFrame writing the timestamp before the data bytes
formatFrame_mutStampFirst(s, frame, maxLen) ==
    LET cmdChar  == IF frame.rtr THEN (IF frame.extended THEN "R" ELSE "r")
                    ELSE (IF frame.extended THEN "T" ELSE "t")
        idDigits == IF frame.extended THEN SLCAN_EXT_ID_LEN ELSE SLCAN_STD_ID_LEN
        b1 == <<cmdChar>>
        b2 == b1 \o formatHex(frame.id, idDigits)
        b3 == Append(b2, nibbleToHexChar(frame.dlc))
        b4 == IF s.timestampEnabled /\ Len(b3) + SLCAN_TIMESTAMP_LEN < maxLen
              THEN b3 \o formatHex(frame.timestamp, SLCAN_TIMESTAMP_LEN) ELSE b3
        b5 == IF ~frame.rtr THEN formatData(frame, 0, b4, maxLen) ELSE b4
    IN  IF 0 >= maxLen THEN <<>>
        ELSE IF Len(b1) + idDigits >= maxLen THEN <<>>
        ELSE IF Len(b2) >= maxLen THEN <<>>
        ELSE b5

\* the formatted text; the empty text where the code returns 0
formatFrame(s, frame, maxLen) ==
    LET cmdChar  == IF frame.rtr THEN (IF frame.extended THEN "R" ELSE "r")
                    ELSE (IF frame.extended THEN "T" ELSE "t")
        idDigits == IF frame.extended THEN SLCAN_EXT_ID_LEN ELSE SLCAN_STD_ID_LEN
        b1 == <<cmdChar>>
        b2 == b1 \o formatHex(frame.id, idDigits)
        b3 == Append(b2, nibbleToHexChar(frame.dlc))
        b4 == IF ~frame.rtr THEN formatData(frame, 0, b3, maxLen) ELSE b3
        b5 == IF s.timestampEnabled /\ Len(b4) + SLCAN_TIMESTAMP_LEN < maxLen
              THEN b4 \o formatHex(frame.timestamp, SLCAN_TIMESTAMP_LEN) ELSE b4
    IN  IF 0 >= maxLen THEN <<>>
        ELSE IF Len(b1) + idDigits >= maxLen THEN <<>>
        ELSE IF Len(b2) >= maxLen THEN <<>>
        ELSE b5

(***************************************************************************)
(* SLCAN: command handlers.  Each yields the handler, adapter and         *)
(* controller after the command, and the response text.                   *)
(***************************************************************************)
setError == <<SLCAN_ERROR>>

setOk == <<>>

\* writes counts the calls of the adapter's write the command made
Result(s, c, h, response) ==
    [slcan |-> s, can |-> c, hw |-> h, response |-> response, writes |-> 0]

\* handleSetup without its test of the rates the controller supports
handleSetup_mutNoSupportCheck(s, c, h, cmd) ==
    LET bitrateChar == At(cmd, 1)
        bitrate     == hexCharToNibble(bitrateChar)
    IN  IF Len(cmd) < 2 THEN Result(s, c, h, setError)
        ELSE IF bitrateChar \notin {"0","1","2","3","4","5","6","7","8"}
        THEN Result(s, c, h, setError)
        ELSE IF s.state # "Closed" THEN Result(s, c, h, setError)
        ELSE Result([s EXCEPT !.configuredBitrate = bitrate], c, h, setOk)

handleSetup(s, c, h, cmd) ==
    LET bitrateChar == At(cmd, 1)
        bitrate     == hexCharToNibble(bitrateChar)
    IN  IF Len(cmd) < 2 THEN Result(s, c, h, setError)
        ELSE IF bitrateChar \notin {"0","1","2","3","4","5","6","7","8"}
        THEN Result(s, c, h, setError)
        ELSE IF ~isBitrateSupported(bitrate) THEN Result(s, c, h, setError)
        ELSE IF s.state # "Closed" THEN Result(s, c, h, setError)
        ELSE Result([s EXCEPT !.configuredBitrate = bitrate], c, h, setOk)

\* OpenAs without its test of the channel state
OpenAs_mutNoStateCheck(s, c, h, mode, newState, devOk) ==
    LET b == RA4M1CAN_begin(c, h, s.configuredBitrate, mode, devOk)
    IN  IF ~b.ret THEN Result(s, b.can, b.hw, setError)
        ELSE Result([s EXCEPT !.state = newState],
                    IF s.filterMask # 0
                    THEN RA4M1CAN_setFilter(b.can, s.filterMask, s.filterCode)
                    ELSE b.can,
                    b.hw, setOk)

\* OpenAs entering the new state although the adapter failed to begin
OpenAs_mutStateOnFailure(s, c, h, mode, newState, devOk) ==
    IF s.state # "Closed" THEN Result(s, c, h, setError)
    ELSE LET b == RA4M1CAN_begin(c, h, s.configuredBitrate, mode, devOk)
         IN  IF ~b.ret THEN Result([s EXCEPT !.state = newState], b.can, b.hw, setError)
             ELSE Result([s EXCEPT !.state = newState],
                         IF s.filterMask # 0
                         THEN RA4M1CAN_setFilter(b.can, s.filterMask, s.filterCode)
                         ELSE b.can,
                         b.hw, setOk)

\* OpenAs not applying the stored filter to the adapter
OpenAs_mutNoFilter(s, c, h, mode, newState, devOk) ==
    IF s.state # "Closed" THEN Result(s, c, h, setError)
    ELSE LET b == RA4M1CAN_begin(c, h, s.configuredBitrate, mode, devOk)
         IN  IF ~b.ret THEN Result(s, b.can, b.hw, setError)
             ELSE Result([s EXCEPT !.state = newState], b.can, b.hw, setOk)

\* the common body of handleOpen and handleListen
OpenAs(s, c, h, mode, newState, devOk) ==
    IF s.state # "Closed" THEN Result(s, c, h, setError)
    ELSE LET b == RA4M1CAN_begin(c, h, s.configuredBitrate, mode, devOk)
         IN  IF ~b.ret THEN Result(s, b.can, b.hw, setError)
             ELSE Result([s EXCEPT !.state = newState],
                         IF s.filterMask # 0
                         THEN RA4M1CAN_setFilter(b.can, s.filterMask, s.filterCode)
                         ELSE b.can,
                         b.hw, setOk)

handleOpen(s, c, h, devOk) == OpenAs(s, c, h, "Normal", "Open", devOk)

handleListen(s, c, h, devOk) == OpenAs(s, c, h, "ListenOnly", "ListenOnly", devOk)

handleClose(s, c, h) ==
    IF s.state = "Closed" THEN Result(s, c, h, setOk)
    ELSE LET e == RA4M1CAN_end(c, h)
         IN  Result([s EXCEPT !.state = "Closed"], e.can, e.hw, setOk)

\* the common body of handleTransmitStd / Ext / RtrStd / RtrExt
handleTransmit(s, c, h, cmd, extended, rtr) ==
    IF s.state # "Open" THEN Result(s, c, h, setError)
    ELSE LET p == parseFrame(cmd, extended, rtr)
         IN  IF ~p.ok THEN Result(s, c, h, setError)
             ELSE LET w == RA4M1CAN_write(c, h, p.frame)
                  IN  [ (IF ~w.ret THEN Result(s, w.can, w.hw, setError)
                         ELSE Result(s, w.can, w.hw,
                                     IF extended THEN <<SLCAN_TX_OK_EXT>>
                                     ELSE <<SLCAN_TX_OK_STD>>))
                        EXCEPT !.writes = 1 ]

\* getStatus() of the adapter reports every flag clear
handleStatus(s, c, h) == Result(s, c, h, <<"F", nibbleToHexChar(0), nibbleToHexChar(0)>>)

handleVersion(s, c, h) == Result(s, c, h, <<"V", "0", "1", "0", "2">>)

handleSerial(s, c, h) == Result(s, c, h, <<"N", "S", "C", "A", "N">>)

handleTimestamp(s, c, h, cmd) ==
    IF Len(cmd) < 2 THEN Result(s, c, h, setError)
    ELSE IF At(cmd, 1) = "0" THEN Result([s EXCEPT !.timestampEnabled = FALSE], c, h, setOk)
    ELSE IF At(cmd, 1) = "1" THEN Result([s EXCEPT !.timestampEnabled = TRUE], c, h, setOk)
    ELSE Result(s, c, h, setError)

handleFilterMask(s, c, h, cmd) ==
    IF Len(cmd) < 9 THEN Result(s, c, h, setError)
    ELSE IF \E i \in 1..8 : ~isHexChar(At(cmd, i)) THEN Result(s, c, h, setError)
    ELSE LET s1 == [s EXCEPT !.filterMask = parseHex(Skip(cmd, 1), 8)]
         IN  Result(s1,
                    IF s1.state # "Closed"
                    THEN RA4M1CAN_setFilter(c, s1.filterMask, s1.filterCode) ELSE c,
                    h, setOk)

handleFilterCode(s, c, h, cmd) ==
    IF Len(cmd) < 9 THEN Result(s, c, h, setError)
    ELSE IF \E i \in 1..8 : ~isHexChar(At(cmd, i)) THEN Result(s, c, h, setError)
    ELSE LET s1 == [s EXCEPT !.filterCode = parseHex(Skip(cmd, 1), 8)]
         IN  Result(s1,
                    IF s1.state # "Closed"
                    THEN RA4M1CAN_setFilter(c, s1.filterMask, s1.filterCode) ELSE c,
                    h, setOk)

canHandle(cmd) ==
    /\ Len(cmd) > 0
    /\ cmd[1] \in {"S", "s", "O", "L", "C", "t", "T", "r", "R", "F", "V", "N", "Z", "M", "m"}

\* processCommand whose s case lacks its return and runs on into the O case
processCommand_mutFallThrough(s, c, h, cmd, devOk) ==
    LET cmdChar == At(cmd, 0)
    IN  CASE cmdChar = "S" -> handleSetup(s, c, h, cmd)
          [] cmdChar = "s" -> handleOpen(s, c, h, devOk)
          [] cmdChar = "O" -> handleOpen(s, c, h, devOk)
          [] cmdChar = "L" -> handleListen(s, c, h, devOk)
          [] cmdChar = "C" -> handleClose(s, c, h)
          [] cmdChar = "t" -> handleTransmit(s, c, h, cmd, FALSE, FALSE)
          [] cmdChar = "T" -> handleTransmit(s, c, h, cmd, TRUE, FALSE)
          [] cmdChar = "r" -> handleTransmit(s, c, h, cmd, FALSE, TRUE)
          [] cmdChar = "R" -> handleTransmit(s, c, h, cmd, TRUE, TRUE)
          [] cmdChar = "F" -> handleStatus(s, c, h)
          [] cmdChar = "V" -> handleVersion(s, c, h)
          [] cmdChar = "N" -> handleSerial(s, c, h)
          [] cmdChar = "Z" -> handleTimestamp(s, c, h, cmd)
          [] cmdChar = "M" -> handleFilterMask(s, c, h, cmd)
          [] cmdChar = "m" -> handleFilterCode(s, c, h, cmd)
          [] OTHER -> Result(s, c, h, setError)

processCommand(s, c, h, cmd, devOk) ==
    LET cmdChar == At(cmd, 0)
    IN  CASE cmdChar = "S" -> handleSetup(s, c, h, cmd)
          [] cmdChar = "s" -> Result(s, c, h, setError)
          [] cmdChar = "O" -> handleOpen(s, c, h, devOk)
          [] cmdChar = "L" -> handleListen(s, c, h, devOk)
          [] cmdChar = "C" -> handleClose(s, c, h)
          [] cmdChar = "t" -> handleTransmit(s, c, h, cmd, FALSE, FALSE)
          [] cmdChar = "T" -> handleTransmit(s, c, h, cmd, TRUE, FALSE)
          [] cmdChar = "r" -> handleTransmit(s, c, h, cmd, FALSE, TRUE)
          [] cmdChar = "R" -> handleTransmit(s, c, h, cmd, TRUE, TRUE)
          [] cmdChar = "F" -> handleStatus(s, c, h)
          [] cmdChar = "V" -> handleVersion(s, c, h)
          [] cmdChar = "N" -> handleSerial(s, c, h)
          [] cmdChar = "Z" -> handleTimestamp(s, c, h, cmd)
          [] cmdChar = "M" -> handleFilterMask(s, c, h, cmd)
          [] cmdChar = "m" -> handleFilterCode(s, c, h, cmd)
          [] OTHER -> Result(s, c, h, setError)

(***************************************************************************)
(* ProtocolDispatcher::dispatch with the SLCAN handler registered by      *)
(* setup().  has is the returned hasResponse.                             *)
(***************************************************************************)
dispatch(s, c, h, cmd, devOk) ==
    IF Len(cmd) = 0
    THEN [has |-> FALSE] @@ Result(s, c, h, <<>>)
    ELSE IF canHandle(cmd)
    THEN [has |-> TRUE] @@ processCommand(s, c, h, cmd, devOk)
    ELSE [has |-> TRUE] @@ Result(s, c, h, <<"BEL">>)

(***************************************************************************)
(* SerialTransport::writeWithPriority.  available is the sink's           *)
(* availableForWrite() at the call; spaceComes tells whether the sink     *)
(* reports enough space before the 10 ms wait of a response-critical      *)
(* write expires.  written is what reaches the host.                      *)
(***************************************************************************)
writeWithPriority(tr, data, prio, available, spaceComes) ==
    IF available > 0 /\ available < Len(data)
    THEN IF prio = "COMMAND_RESPONSE"
         THEN IF spaceComes
              THEN [ret |-> TRUE, transport |-> tr, written |-> data]
              ELSE [ret |-> FALSE,
                    transport |-> [tr EXCEPT !.cmdResponseDropCount = @ + 1],
                    written |-> <<>>]
         ELSE [ret |-> FALSE,
               transport |-> [tr EXCEPT !.canTxDropCount = @ + 1],
               written |-> <<>>]
    ELSE [ret |-> TRUE, transport |-> tr, written |-> data]

(***************************************************************************)
(* SerialTransport: line framing and the command queue.  rxAccumulator is *)
(* the first _rxAccIndex characters of the accumulator, a slot's buffer   *)
(* its first length characters.                                           *)
(***************************************************************************)
CommandSlot == [buffer |-> <<>>, length |-> 0, valid |-> FALSE]

\* processChar starting a new line when the accumulator is full
processChar_mutSplit(tr, c) ==
    IF c = "CR" \/ c = "LF"
    THEN IF Len(tr.rxAccumulator) > 0
         THEN LET nextHead == (tr.cmdHead + 1) % SERIAL_CMD_QUEUE_SIZE
              IN  IF nextHead = tr.cmdTail
                  THEN [tr EXCEPT !.cmdOverflowCount = @ + 1, !.rxAccumulator = <<>>]
                  ELSE [tr EXCEPT !.cmdQueue[tr.cmdHead] =
                                      [buffer |-> tr.rxAccumulator,
                                       length |-> Len(tr.rxAccumulator),
                                       valid |-> TRUE],
                                  !.cmdHead = nextHead,
                                  !.rxAccumulator = <<>>]
         ELSE tr
    ELSE IF Len(tr.rxAccumulator) < SERIAL_RX_BUFFER_SIZE - 1
         THEN [tr EXCEPT !.rxAccumulator = Append(@, c)]
         ELSE LET nextHead == (tr.cmdHead + 1) % SERIAL_CMD_QUEUE_SIZE
              IN  IF nextHead = tr.cmdTail
                  THEN [tr EXCEPT !.cmdOverflowCount = @ + 1, !.rxAccumulator = <<c>>]
                  ELSE [tr EXCEPT !.cmdQueue[tr.cmdHead] =
                                      [buffer |-> tr.rxAccumulator,
                                       length |-> Len(tr.rxAccumulator),
                                       valid |-> TRUE],
                                  !.cmdHead = nextHead,
                                  !.rxAccumulator = <<c>>]

\* processChar ending lines at CR only
processChar_mutCrOnly(tr, c) ==
    IF c = "CR"
    THEN IF Len(tr.rxAccumulator) > 0
         THEN LET nextHead == (tr.cmdHead + 1) % SERIAL_CMD_QUEUE_SIZE
              IN  IF nextHead = tr.cmdTail
                  THEN [tr EXCEPT !.cmdOverflowCount = @ + 1, !.rxAccumulator = <<>>]
                  ELSE [tr EXCEPT !.cmdQueue[tr.cmdHead] =
                                      [buffer |-> tr.rxAccumulator,
                                       length |-> Len(tr.rxAccumulator),
                                       valid |-> TRUE],
                                  !.cmdHead = nextHead,
                                  !.rxAccumulator = <<>>]
         ELSE tr
    ELSE IF Len(tr.rxAccumulator) < SERIAL_RX_BUFFER_SIZE - 1
         THEN [tr EXCEPT !.rxAccumulator = Append(@, c)]
         ELSE [tr EXCEPT !.cmdOverflowCount = @ + 1]

\* processChar keeping the accumulated line when the queue is full
processChar_mutKeepLine(tr, c) ==
    IF c = "CR" \/ c = "LF"
    THEN IF Len(tr.rxAccumulator) > 0
         THEN LET nextHead == (tr.cmdHead + 1) % SERIAL_CMD_QUEUE_SIZE
              IN  IF nextHead = tr.cmdTail
                  THEN [tr EXCEPT !.cmdOverflowCount = @ + 1]
                  ELSE [tr EXCEPT !.cmdQueue[tr.cmdHead] =
                                      [buffer |-> tr.rxAccumulator,
                                       length |-> Len(tr.rxAccumulator),
                                       valid |-> TRUE],
                                  !.cmdHead = nextHead,
                                  !.rxAccumulator = <<>>]
         ELSE tr
    ELSE IF Len(tr.rxAccumulator) < SERIAL_RX_BUFFER_SIZE - 1
         THEN [tr EXCEPT !.rxAccumulator = Append(@, c)]
         ELSE [tr EXCEPT !.cmdOverflowCount = @ + 1]

\* the body of the loop of processIncoming for the character c
processChar(tr, c) ==
    IF c = "CR" \/ c = "LF"
    THEN IF Len(tr.rxAccumulator) > 0
         THEN LET nextHead == (tr.cmdHead + 1) % SERIAL_CMD_QUEUE_SIZE
              IN  IF nextHead = tr.cmdTail
                  THEN [tr EXCEPT !.cmdOverflowCount = @ + 1, !.rxAccumulator = <<>>]
                  ELSE [tr EXCEPT !.cmdQueue[tr.cmdHead] =
                                      [buffer |-> tr.rxAccumulator,
                                       length |-> Len(tr.rxAccumulator),
                                       valid |-> TRUE],
                                  !.cmdHead = nextHead,
                                  !.rxAccumulator = <<>>]
         ELSE tr
    ELSE IF Len(tr.rxAccumulator) < SERIAL_RX_BUFFER_SIZE - 1
         THEN [tr EXCEPT !.rxAccumulator = Append(@, c)]
         ELSE [tr EXCEPT !.cmdOverflowCount = @ + 1]

\* bytes: what _serial.available() / read() deliver during the call
RECURSIVE processIncoming(_, _)
processIncoming(tr, bytes) ==
    IF bytes = <<>> THEN tr
    ELSE CHOOSE rest \in {processIncoming(t1, Tail(bytes)) :
                              t1 \in {processChar(tr, Head(bytes))}} : TRUE

\* readLine handing out the newest queued line instead of the oldest
readLine_mutNewest(tr, bytes, maxLen) ==
    LET t1 == processIncoming(tr, bytes)
    IN  IF t1.cmdTail = t1.cmdHead
        THEN [ret |-> FALSE, transport |-> t1, buffer |-> <<>>]
        ELSE LET last    == (t1.cmdHead + SERIAL_CMD_QUEUE_SIZE - 1) % SERIAL_CMD_QUEUE_SIZE
                 slot    == t1.cmdQueue[last]
                 copyLen == IF slot.length >= maxLen THEN maxLen - 1 ELSE slot.length
             IN  [ret |-> TRUE,
                  transport |-> [t1 EXCEPT !.cmdQueue[last].valid = FALSE,
                                           !.cmdHead = last],
                  buffer |-> SubSeq(slot.buffer, 1, copyLen)]

readLine(tr, bytes, maxLen) ==
    CHOOSE result \in {
        IF t1.cmdTail = t1.cmdHead
        THEN [ret |-> FALSE, transport |-> t1, buffer |-> <<>>]
        ELSE LET slot    == t1.cmdQueue[t1.cmdTail]
                 copyLen == IF slot.length >= maxLen THEN maxLen - 1 ELSE slot.length
             IN  [ret |-> TRUE,
                  transport |-> [t1 EXCEPT !.cmdQueue[t1.cmdTail].valid = FALSE,
                                           !.cmdTail = (@ + 1) % SERIAL_CMD_QUEUE_SIZE],
                  buffer |-> SubSeq(slot.buffer, 1, copyLen)] :
        t1 \in {processIncoming(tr, bytes)}} : TRUE

\* the timeout test without the wrap-around of unsigned subtraction
waitExpired_mutNoWrap(start, now) ==
    now - start > WRITE_TIMEOUT_MS

\* the timeout test of the wait loop, millis() - start > 10 in unsigned
\* arithmetic; the clock is ClockMod wide here
waitExpired(start, now) ==
    (now - start + ClockMod) % ClockMod > WRITE_TIMEOUT_MS

(***************************************************************************)
(* SLCAN: receive ring and poll.                                           *)
(***************************************************************************)
RECURSIVE drainFromBackend(_, _, _, _)
drainFromBackend(s, c, h, now) ==
    IF ~RA4M1CAN_available(c, h) THEN [slcan |-> s, can |-> c, hw |-> h]
    ELSE LET nextHead == (s.rxHead + 1) % CAN_RX_QUEUE_SIZE
         IN  IF nextHead = s.rxTail
             THEN [slcan |-> [s EXCEPT !.rxOverflowCount = @ + 1], can |-> c, hw |-> h]
             ELSE LET r == RA4M1CAN_read(c, h, now)
                  IN  IF r.ret
                      THEN CHOOSE next \in
                               {drainFromBackend(
                                    [s EXCEPT !.rxQueue[s.rxHead] =
                                                  [msg |-> rv.frame,
                                                   timestamp |-> now % 65536,
                                                   valid |-> TRUE],
                                              !.rxHead = nextHead],
                                    rv.can, rv.hw, now) : rv \in {r}} : TRUE
                      ELSE [slcan |-> s, can |-> r.can, hw |-> r.hw]

\* getNextRxFrame taking the newest frame of the ring
getNextRxFrame_mutNewest(s) ==
    IF s.rxTail = s.rxHead
    THEN [ret |-> FALSE, frame |-> CANFrame, slcan |-> s]
    ELSE LET last == (s.rxHead + CAN_RX_QUEUE_SIZE - 1) % CAN_RX_QUEUE_SIZE
         IN  [ret |-> TRUE, frame |-> s.rxQueue[last].msg,
              slcan |-> [s EXCEPT !.rxQueue[last].valid = FALSE,
                                  !.rxHead = last]]

getNextRxFrame(s) ==
    IF s.rxTail = s.rxHead
    THEN [ret |-> FALSE, frame |-> CANFrame, slcan |-> s]
    ELSE [ret |-> TRUE, frame |-> s.rxQueue[s.rxTail].msg,
          slcan |-> [s EXCEPT !.rxQueue[s.rxTail].valid = FALSE,
                              !.rxTail = (@ + 1) % CAN_RX_QUEUE_SIZE]]

RECURSIVE forwardFrames_mutNoBreak(_, _, _, _, _)
\* forwardFrames going on to the next frame after a refused write
forwardFrames_mutNoBreak(s, tr, out, framesProcessed, avail) ==
    IF framesProcessed >= MAX_FRAMES_PER_POLL
    THEN [slcan |-> s, transport |-> tr, hostOut |-> out]
    ELSE LET g == getNextRxFrame(s)
             buffer == formatFrame(g.slcan, g.frame, SLCAN_MAX_EXT_FRAME_LEN)
             len == Len(buffer)
         IN  IF ~g.ret THEN [slcan |-> s, transport |-> tr, hostOut |-> out]
             ELSE IF len > 0
             THEN IF len + 1 > SLCAN_MAX_EXT_FRAME_LEN
                  THEN [slcan |-> [g.slcan EXCEPT !.canRxDropCount = @ + 1],
                        transport |-> tr, hostOut |-> out]
                  ELSE LET w == writeWithPriority(tr, Append(buffer, "CR"), "CAN_RX_FRAME",
                                                  avail[framesProcessed + 1], FALSE)
                       IN  IF ~w.ret
                           THEN forwardFrames_mutNoBreak(
                                    [g.slcan EXCEPT !.canRxDropCount = @ + 1],
                                    w.transport, out, framesProcessed + 1, avail)
                           ELSE forwardFrames_mutNoBreak(g.slcan, w.transport,
                                                         Append(out, w.written),
                                                         framesProcessed + 1, avail)
             ELSE forwardFrames_mutNoBreak(g.slcan, tr, out, framesProcessed + 1, avail)

RECURSIVE forwardFrames_mutNoDropCount(_, _, _, _, _)
\* forwardFrames leaving the drop counter alone after a refused write
forwardFrames_mutNoDropCount(s, tr, out, framesProcessed, avail) ==
    IF framesProcessed >= MAX_FRAMES_PER_POLL
    THEN [slcan |-> s, transport |-> tr, hostOut |-> out]
    ELSE LET g == getNextRxFrame(s)
             buffer == formatFrame(g.slcan, g.frame, SLCAN_MAX_EXT_FRAME_LEN)
             len == Len(buffer)
         IN  IF ~g.ret THEN [slcan |-> s, transport |-> tr, hostOut |-> out]
             ELSE IF len > 0
             THEN IF len + 1 > SLCAN_MAX_EXT_FRAME_LEN
                  THEN [slcan |-> [g.slcan EXCEPT !.canRxDropCount = @ + 1],
                        transport |-> tr, hostOut |-> out]
                  ELSE LET w == writeWithPriority(tr, Append(buffer, "CR"), "CAN_RX_FRAME",
                                                  avail[framesProcessed + 1], FALSE)
                       IN  IF ~w.ret
                           THEN [slcan |-> g.slcan,
                                 transport |-> w.transport, hostOut |-> out]
                           ELSE forwardFrames_mutNoDropCount(g.slcan, w.transport,
                                                             Append(out, w.written),
                                                             framesProcessed + 1, avail)
             ELSE forwardFrames_mutNoDropCount(g.slcan, tr, out, framesProcessed + 1, avail)

RECURSIVE forwardFrames_mutNoLimit(_, _, _, _, _)
\* forwardFrames going on until the ring is empty
forwardFrames_mutNoLimit(s, tr, out, framesProcessed, avail) ==
    LET g == getNextRxFrame(s)
        buffer == formatFrame(g.slcan, g.frame, SLCAN_MAX_EXT_FRAME_LEN)
        len == Len(buffer)
        k == IF framesProcessed < MAX_FRAMES_PER_POLL
             THEN framesProcessed + 1 ELSE MAX_FRAMES_PER_POLL
    IN  IF ~g.ret THEN [slcan |-> s, transport |-> tr, hostOut |-> out]
        ELSE IF len > 0
        THEN IF len + 1 > SLCAN_MAX_EXT_FRAME_LEN
             THEN [slcan |-> [g.slcan EXCEPT !.canRxDropCount = @ + 1],
                   transport |-> tr, hostOut |-> out]
             ELSE LET w == writeWithPriority(tr, Append(buffer, "CR"), "CAN_RX_FRAME",
                                             avail[k], FALSE)
                  IN  IF ~w.ret
                      THEN [slcan |-> [g.slcan EXCEPT !.canRxDropCount = @ + 1],
                            transport |-> w.transport, hostOut |-> out]
                      ELSE forwardFrames_mutNoLimit(g.slcan, w.transport,
                                                    Append(out, w.written),
                                                    framesProcessed + 1, avail)
        ELSE forwardFrames_mutNoLimit(g.slcan, tr, out, framesProcessed + 1, avail)

RECURSIVE forwardFrames(_, _, _, _, _)
\* step 2 of poll; avail[k] is the sink's availableForWrite() at the k-th write
forwardFrames(s, tr, out, framesProcessed, avail) ==
    IF framesProcessed >= MAX_FRAMES_PER_POLL
    THEN [slcan |-> s, transport |-> tr, hostOut |-> out]
    ELSE CHOOSE result \in UNION {{
             LET len == Len(buffer)
             IN  IF ~g.ret THEN [slcan |-> s, transport |-> tr, hostOut |-> out]
                 ELSE IF len > 0
                 THEN IF len + 1 > SLCAN_MAX_EXT_FRAME_LEN
                      THEN [slcan |-> [g.slcan EXCEPT !.canRxDropCount = @ + 1],
                            transport |-> tr, hostOut |-> out]
                      ELSE CHOOSE written \in {
                               IF ~w.ret
                               THEN [slcan |-> [g.slcan EXCEPT !.canRxDropCount = @ + 1],
                                     transport |-> w.transport, hostOut |-> out]
                               ELSE forwardFrames(g.slcan, w.transport,
                                                  Append(out, w.written),
                                                  framesProcessed + 1, avail) :
                               w \in {writeWithPriority(tr, Append(buffer, "CR"),
                                                        "CAN_RX_FRAME",
                                                        avail[framesProcessed + 1],
                                                        FALSE)}} : TRUE
                 ELSE forwardFrames(g.slcan, tr, out, framesProcessed + 1, avail) :
             buffer \in {formatFrame(g.slcan, g.frame, SLCAN_MAX_EXT_FRAME_LEN)}} :
             g \in {getNextRxFrame(s)}} : TRUE

\* poll without its test of the channel state
poll_mutNoClosedCheck(s, c, h, tr, out, now, avail) ==
    IF ~s.autoForward
    THEN [slcan |-> s, can |-> c, hw |-> h, transport |-> tr, hostOut |-> out]
    ELSE LET d == drainFromBackend(s, c, h, now)
             f == forwardFrames(d.slcan, tr, out, 0, avail)
         IN  [slcan |-> f.slcan, can |-> d.can, hw |-> d.hw,
              transport |-> f.transport, hostOut |-> f.hostOut]

poll(s, c, h, tr, out, now, avail) ==
    IF s.state = "Closed"
    THEN [slcan |-> s, can |-> c, hw |-> h, transport |-> tr, hostOut |-> out]
    ELSE IF ~s.autoForward
    THEN [slcan |-> s, can |-> c, hw |-> h, transport |-> tr, hostOut |-> out]
    ELSE CHOOSE result \in
             UNION {{[slcan |-> f.slcan, can |-> d.can, hw |-> d.hw,
                      transport |-> f.transport, hostOut |-> f.hostOut] :
                         f \in {forwardFrames(d.slcan, tr, out, 0, avail)}} :
                    d \in {drainFromBackend(s, c, h, now)}} : TRUE

(***************************************************************************)
(* Inputs.                                                                 *)
(***************************************************************************)
\* values of millis() seen by the program
Times == {4660}

\* values the sink's availableForWrite() takes: a few bytes, ample
SinkAvail == {2, 64}

\* a sink reading can only matter to a payload of more than one byte
SinkReadings(len) == IF len > 1 THEN SinkAvail ELSE {0}

\* the wait loop of a response-critical write is entered only when the
\* sink reports some space, but less than the payload
WaitOutcomes(available, len) ==
    IF available > 0 /\ available < len THEN BOOLEAN ELSE {FALSE}

\* CAN.begin() is reached only by an O or L command
DevOutcomes(cmd) == IF At(cmd, 0) \in {"O", "L"} THEN BOOLEAN ELSE {TRUE}

\* identifiers of the frames on the bus
BusIds == {291, 1110}

\* the n-th frame on the bus carries n as its first data byte
BusMsg(id, n) == [id |-> id, dlc |-> 1, data |-> [ZeroData EXCEPT ![1] = n],
                  extended |-> FALSE]

\* the transmit command of each kind that carries the number n as the last
\* digit of its identifier
TxLine(kind, n) ==
    CASE kind = "t" -> <<"t", "1", "0", nibbleToHexChar(n), "1", "A", "A">>
      [] kind = "T" -> <<"T", "0", "0", "0", "0", "0", "2", "0", nibbleToHexChar(n),
                         "1", "B", "B">>
      [] kind = "r" -> <<"r", "1", "0", nibbleToHexChar(n), "0">>
      [] kind = "R" -> <<"R", "0", "0", "0", "0", "0", "2", "0", nibbleToHexChar(n), "0">>

\* the frame of the n-th transmit request when it is a direct write call
TxFrame(n) == [id |-> 768 + n, dlc |-> 1, data |-> [ZeroData EXCEPT ![1] = 204],
               extended |-> FALSE, rtr |-> FALSE, timestamp |-> 0]

\* the number a transmitted frame carries
TxNum(frame) == frame.id % 16

\* the number a received frame, or its line on the host, carries
RxNum(frame) == frame.data[1]

ChannelLines == { <<"O">>, <<"L">>, <<"C">> }

FilterLines ==
    { <<"M", "0", "0", "0", "0", "0", "7", "F", "F">>,
      <<"M", "0", "0", "0", "0", "0", "0", "0", "0">>,
      <<"m", "0", "0", "0", "0", "0", "1", "2", "3">> }

ForwardLines == { <<"X", "0">>, <<"X", "1">> }

(***************************************************************************)
(* Initial state: the objects as their constructors leave them.            *)
(***************************************************************************)
Init ==
    /\ slcan = [state |-> "Closed", configuredBitrate |-> SLCAN_BITRATE_500K,
                timestampEnabled |-> FALSE, autoForward |-> TRUE,
                filterMask |-> 0, filterCode |-> 0,
                rxQueue |-> [i \in 0..(CAN_RX_QUEUE_SIZE - 1) |-> FrameSlot],
                rxHead |-> 0, rxTail |-> 0,
                rxOverflowCount |-> 0, canRxDropCount |-> 0]
    /\ can = [isOpen |-> FALSE, mode |-> "Normal", bitrate |-> 6,
              filterMask |-> 0, filterValue |-> 0, filterEnabled |-> FALSE,
              txQueue |-> [i \in 0..(CAN_TX_QUEUE_SIZE - 1) |-> CANFrame],
              txQueueHead |-> 0, txQueueTail |-> 0, txQueueCount |-> 0,
              txQueueFullCount |-> 0]
    /\ hw = [started |-> FALSE, txFree |-> HwTxSlots, txLog |-> <<>>, rx |-> <<>>]
    /\ cmdBuffer = <<>>
    /\ responseBuffer = <<>>
    /\ hasResponse = FALSE
    /\ cmdsProcessed = 0
    /\ transport = [cmdResponseDropCount |-> 0, canTxDropCount |-> 0,
                    cmdQueue |-> [i \in 0..(SERIAL_CMD_QUEUE_SIZE - 1) |-> CommandSlot],
                    cmdHead |-> 0, cmdTail |-> 0, rxAccumulator |-> <<>>,
                    cmdOverflowCount |-> 0]
    /\ hostOut = <<>>
    /\ hostResp = <<>>
    /\ busCount = 0
    /\ txCount = 0
    /\ rxDropped = {}
    /\ ret = FALSE
    /\ serial = [space |-> 64, clock |-> 0, incoming |-> <<>>, lineNo |-> 1, lineLen |-> 0,
                 bareSent |-> FALSE]
    /\ writer = [pc |-> "idle", data |-> <<>>, available |-> 0, start |-> 0]
    /\ trip = [done |-> FALSE, frame |-> CANFrame, line |-> <<>>, parsed |-> [ok |-> FALSE, frame |-> CANFrame]]
    \* setup() has registered the SLCAN handler
    /\ dispatcher = [handlers |-> [i \in 0..(MAX_PROTOCOL_HANDLERS - 1) |->
                                       IF i = 0 THEN "slcan" ELSE "nullptr"],
                     handlerCount |-> 1, op |-> "none", arg |-> "nullptr",
                     asked |-> <<>>, by |-> <<>>]

(***************************************************************************)
(* ProtocolDispatcher with any handlers.  main.cpp registers the SLCAN     *)
(* handler only, which is what dispatch above models; the class takes any  *)
(* IProtocolHandler.  The further handlers stand for other implementations *)
(* of the interface: each claims the lines that start with one of its      *)
(* characters and answers with its own name.  "nullptr" is the null        *)
(* pointer.  The fields op, arg, asked and by of the dispatcher record the *)
(* last call: its name and argument, the handlers whose canHandle was      *)
(* called and those whose processCommand was called.                       *)
(***************************************************************************)
AuxHandlers == {"aux1", "aux2", "aux3", "aux4"}

Handlers == {"slcan"} \cup AuxHandlers

AuxPrefixes(handler) ==
    CASE handler = "aux1" -> {"V", "?"}
      [] handler = "aux2" -> {"?", "!"}
      [] handler = "aux3" -> {"!"}
      [] OTHER            -> {"N", "?"}

\* IProtocolHandler::canHandle of a registered handler
handlerCanHandle(handler, cmd) ==
    IF handler = "slcan"
    THEN canHandle(cmd)
    ELSE Len(cmd) > 0 /\ cmd[1] \in AuxPrefixes(handler)

\* IProtocolHandler::processCommand of a registered handler
handlerProcessCommand(handler, s, c, h, cmd, devOk) ==
    IF handler = "slcan"
    THEN processCommand(s, c, h, cmd, devOk)
    ELSE Result(s, c, h, <<handler>>)

\* registerHandler without the search for the handler
registerHandler_mutNoDupCheck(d, handler) ==
    IF handler = "nullptr"
    THEN [ret |-> FALSE, dispatcher |-> d]
    ELSE IF d.handlerCount >= MAX_PROTOCOL_HANDLERS
    THEN [ret |-> FALSE, dispatcher |-> d]
    ELSE [ret |-> TRUE,
          dispatcher |-> [d EXCEPT !.handlers[d.handlerCount] = handler,
                                   !.handlerCount = @ + 1]]

registerHandler(d, handler) ==
    IF handler = "nullptr"
    THEN [ret |-> FALSE, dispatcher |-> d]
    ELSE IF \E i \in 0..(d.handlerCount - 1) : d.handlers[i] = handler
    THEN [ret |-> TRUE, dispatcher |-> d]
    ELSE IF d.handlerCount >= MAX_PROTOCOL_HANDLERS
    THEN [ret |-> FALSE, dispatcher |-> d]
    ELSE [ret |-> TRUE,
          dispatcher |-> [d EXCEPT !.handlers[d.handlerCount] = handler,
                                   !.handlerCount = @ + 1]]

unregisterHandler(d, handler) ==
    LET found == {i \in 0..(d.handlerCount - 1) : d.handlers[i] = handler}
    IN  IF handler = "nullptr" \/ found = {}
        THEN [ret |-> FALSE, dispatcher |-> d]
        ELSE LET i == CHOOSE x \in found : \A y \in found : x <= y
             IN  [ret |-> TRUE,
                  dispatcher |->
                      [d EXCEPT !.handlers =
                                    [j \in DOMAIN d.handlers |->
                                        IF j = d.handlerCount - 1 THEN "nullptr"
                                        ELSE IF j >= i /\ j < d.handlerCount - 1
                                        THEN d.handlers[j + 1]
                                        ELSE d.handlers[j]],
                                !.handlerCount = @ - 1]]

\* dispatch delegating to the last handler that accepts the line
ProtocolDispatcher_dispatch_mutLastMatch(d, s, c, h, cmd, devOk) ==
    LET accepting == {i \in 0..(d.handlerCount - 1) :
                         /\ d.handlers[i] # "nullptr"
                         /\ handlerCanHandle(d.handlers[i], cmd)}
    IN  IF Len(cmd) = 0
        THEN [has |-> FALSE, asked |-> <<>>, by |-> <<>>] @@ Result(s, c, h, <<>>)
        ELSE IF accepting = {}
        THEN [has |-> TRUE,
              asked |-> [k \in 1..d.handlerCount |-> d.handlers[k - 1]],
              by |-> <<>>] @@ Result(s, c, h, <<"BEL">>)
        ELSE LET i == CHOOSE x \in accepting : \A y \in accepting : x >= y
             IN  [has |-> TRUE,
                  asked |-> [k \in 1..d.handlerCount |-> d.handlers[k - 1]],
                  by |-> <<d.handlers[i]>>]
                 @@ handlerProcessCommand(d.handlers[i], s, c, h, cmd, devOk)

\* ProtocolDispatcher::dispatch: the loop stops at the first handler that
\* accepts the line, so canHandle is called up to that handler and no further
ProtocolDispatcher_dispatch(d, s, c, h, cmd, devOk) ==
    LET accepting == {i \in 0..(d.handlerCount - 1) :
                         /\ d.handlers[i] # "nullptr"
                         /\ handlerCanHandle(d.handlers[i], cmd)}
    IN  IF Len(cmd) = 0
        THEN [has |-> FALSE, asked |-> <<>>, by |-> <<>>] @@ Result(s, c, h, <<>>)
        ELSE IF accepting = {}
        THEN [has |-> TRUE,
              asked |-> [k \in 1..d.handlerCount |-> d.handlers[k - 1]],
              by |-> <<>>] @@ Result(s, c, h, <<"BEL">>)
        ELSE LET i == CHOOSE x \in accepting : \A y \in accepting : x <= y
             IN  [has |-> TRUE,
                  asked |-> [k \in 1..(i + 1) |-> d.handlers[k - 1]],
                  by |-> <<d.handlers[i]>>]
                 @@ handlerProcessCommand(d.handlers[i], s, c, h, cmd, devOk)

(***************************************************************************)
(* main.cpp loop(): one pass of the command loop body.  readLine has      *)
(* returned the line cmd; the line is dispatched and the response and its *)
(* CR are written with COMMAND_RESPONSE priority.                         *)
(***************************************************************************)
\* tr: the transport as the readLine call of this pass has left it
DispatchLine(tr, cmd, devOk) ==
    \E d \in {dispatch(slcan, can, hw, cmd, devOk)} :
        /\ cmdsProcessed < MAX_CMDS_PER_LOOP
        /\ cmdsProcessed' = cmdsProcessed + 1
        /\ cmdBuffer' = cmd
        /\ slcan' = d.slcan
        /\ can' = d.can
        /\ hw' = d.hw
        /\ hasResponse' = d.has
        /\ responseBuffer' = IF d.has THEN d.response ELSE responseBuffer
        /\ \E a1 \in SinkReadings(Len(d.response)), a2 \in SinkReadings(1) :
           \E sp1 \in WaitOutcomes(a1, Len(d.response)), sp2 \in WaitOutcomes(a2, 1) :
              LET w1 == IF d.has /\ Len(d.response) > 0
                        THEN writeWithPriority(tr, d.response,
                                               "COMMAND_RESPONSE", a1, sp1)
                        ELSE [ret |-> TRUE, transport |-> tr, written |-> <<>>]
                  w2 == IF d.has
                        THEN writeWithPriority(w1.transport, <<"CR">>,
                                               "COMMAND_RESPONSE", a2, sp2)
                        ELSE [ret |-> TRUE, transport |-> w1.transport, written |-> <<>>]
              IN  /\ transport' = w2.transport
                  /\ hostResp' = w1.written \o w2.written
        /\ txCount' = txCount + d.writes
        /\ UNCHANGED <<dispatcher, trip, writer, hostOut, busCount, rxDropped>>

Command(cmd, devOk) ==
    /\ DispatchLine(transport, cmd, devOk)
    /\ UNCHANGED <<serial, ret>>

\* a channel command: O, L or C
LoopChannel ==
    \E cmd \in ChannelLines : \E devOk \in DevOutcomes(cmd) : Command(cmd, devOk)

\* a filter command: M or m
LoopFilter ==
    \E cmd \in FilterLines : Command(cmd, TRUE)

\* an auto-forward command: X0 or X1
LoopForward ==
    \E cmd \in ForwardLines : Command(cmd, TRUE)

\* a transmit command; txCount numbers the requests that reach the
\* adapter's write, so a command refused before that reuses its number
Transmit(kinds, max) ==
    /\ txCount < max
    /\ \E kind \in kinds : Command(TxLine(kind, txCount + 1), TRUE)

\* a data frame command: t or T
LoopTransmit == Transmit({"t", "T"}, MaxTxCmds)

\* a transmit command of any kind: t, T, r or R
LoopTransmitAny == Transmit({"t", "T", "r", "R"}, MaxGateTx)

(***************************************************************************)
(* main.cpp loop(): the command loop is left (no line queued or the       *)
(* per-iteration limit reached) and dispatcher.pollAll polls the handler. *)
(***************************************************************************)
LoopPoll ==
    /\ \E now \in Times, avail \in [1..MAX_FRAMES_PER_POLL -> SinkAvail] :
          \E p \in {poll(slcan, can, hw, transport, hostOut, now, avail)} :
              /\ p.slcan.rxOverflowCount <= MaxOverflow
              /\ slcan' = p.slcan
              /\ can' = p.can
              /\ hw' = p.hw
              /\ transport' = p.transport
              /\ hostOut' = p.hostOut
              /\ rxDropped' = IF p.slcan.rxOverflowCount > slcan.rxOverflowCount
                              THEN rxDropped \cup {RxNum(Head(p.hw.rx))}
                              ELSE rxDropped
    /\ cmdsProcessed' = 0
    /\ UNCHANGED <<dispatcher, trip, serial, writer, cmdBuffer, responseBuffer, hasResponse, hostResp, busCount,
                   txCount, ret>>

(***************************************************************************)
(* Environment: the bus delivers a frame to the started controller; the   *)
(* controller finishes a transmission and frees a transmit slot.          *)
(***************************************************************************)
BusArrives(ids, max) ==
    /\ hw.started
    /\ busCount < max
    /\ Len(hw.rx) < HwRxSlots
    /\ \E id \in ids : hw' = [hw EXCEPT !.rx = Append(@, BusMsg(id, busCount + 1))]
    /\ busCount' = busCount + 1
    /\ UNCHANGED <<dispatcher, trip, serial, writer, slcan, can, cmdBuffer, responseBuffer, hasResponse, cmdsProcessed,
                   transport, hostOut, hostResp, txCount, rxDropped, ret>>

\* frames with either identifier
BusFrame == BusArrives(BusIds, MaxBusFrames)

\* a burst of frames with one identifier
BusBurst == BusArrives({291}, MaxRxBurst)

HwTxComplete ==
    /\ hw.txFree < HwTxSlots
    /\ hw' = [hw EXCEPT !.txFree = @ + 1]
    /\ UNCHANGED <<dispatcher, trip, serial, writer, slcan, can, cmdBuffer, responseBuffer, hasResponse, cmdsProcessed,
                   transport, hostOut, hostResp, busCount, txCount, rxDropped, ret>>

(***************************************************************************)
(* Direct calls of the adapter's public methods, as a caller other than   *)
(* the SLCAN handler may make them.                                       *)
(***************************************************************************)
DirectWrite(max) ==
    /\ txCount < max
    /\ \E w \in {RA4M1CAN_write(can, hw, TxFrame(txCount + 1))} :
           /\ can' = w.can
           /\ hw' = w.hw
           /\ ret' = w.ret
    /\ txCount' = txCount + 1
    /\ UNCHANGED <<dispatcher, trip, serial, writer, slcan, cmdBuffer, responseBuffer, hasResponse, cmdsProcessed,
                   transport, hostOut, hostResp, busCount, rxDropped>>

CanWrite == DirectWrite(MaxTxCmds)

GateWrite == DirectWrite(MaxGateTx)

CanService ==
    /\ \E v \in {serviceTxQueue(can, hw)} :
           /\ can' = v.can
           /\ hw' = v.hw
    /\ UNCHANGED <<dispatcher, trip, serial, writer, slcan, cmdBuffer, responseBuffer, hasResponse, cmdsProcessed,
                   transport, hostOut, hostResp, busCount, txCount, rxDropped, ret>>

CanBegin ==
    /\ \E mode \in {"Normal", "ListenOnly"}, devOk \in BOOLEAN :
          \E b \in {RA4M1CAN_begin(can, hw, SLCAN_BITRATE_500K, mode, devOk)} :
              /\ can' = b.can
              /\ hw' = b.hw
              /\ ret' = b.ret
    /\ UNCHANGED <<dispatcher, trip, serial, writer, slcan, cmdBuffer, responseBuffer, hasResponse, cmdsProcessed,
                   transport, hostOut, hostResp, busCount, txCount, rxDropped>>

CanEnd ==
    /\ \E e \in {RA4M1CAN_end(can, hw)} :
           /\ can' = e.can
           /\ hw' = e.hw
    /\ UNCHANGED <<dispatcher, trip, serial, writer, slcan, cmdBuffer, responseBuffer, hasResponse, cmdsProcessed,
                   transport, hostOut, hostResp, busCount, txCount, rxDropped, ret>>

(***************************************************************************)
(* Spec: the gateway as main.cpp wires it, under channel and filter       *)
(* commands and bus traffic.                                               *)
(***************************************************************************)
Next == LoopChannel \/ LoopFilter \/ LoopPoll \/ BusFrame

Spec == Init /\ [][Next]_vars

(***************************************************************************)
(* SpecRx: the gateway as main.cpp wires it, under channel and            *)
(* auto-forward commands and a burst of bus frames.                        *)
(***************************************************************************)
NextRx == LoopChannel \/ LoopForward \/ LoopPoll \/ BusBurst

SpecRx == Init /\ [][NextRx]_vars

(***************************************************************************)
(* SpecTx: the gateway as main.cpp wires it, under channel and transmit   *)
(* commands.  SpecTxFair adds the scheduling of the firmware: loop() is   *)
(* called again and again, and the controller completes transmissions.    *)
(***************************************************************************)
NextTx == LoopChannel \/ LoopTransmit \/ LoopPoll \/ HwTxComplete

SpecTx == Init /\ [][NextTx]_vars

SpecTxFair == SpecTx /\ WF_vars(LoopPoll) /\ WF_vars(HwTxComplete)

(***************************************************************************)
(* SpecCan: the adapter alone, its public methods called directly in any  *)
(* order.                                                                  *)
(***************************************************************************)
NextCan == CanBegin \/ CanEnd \/ CanWrite \/ CanService \/ HwTxComplete

SpecCan == Init /\ [][NextCan]_vars

(***************************************************************************)
(* SpecGate: the handler under channel commands and transmit commands of  *)
(* every kind, with the adapter's write also called directly.             *)
(***************************************************************************)
NextGate == LoopChannel \/ LoopTransmitAny \/ LoopPoll \/ HwTxComplete \/ GateWrite

SpecGate == Init /\ [][NextGate]_vars

(***************************************************************************)
(* SpecFilter: the adapter alone on the receive side: begin, end,         *)
(* setFilter, clearFilter and read called directly in any order while     *)
(* frames with several identifiers arrive.                                 *)
(***************************************************************************)
\* masks, codes and identifiers of the receive-side runs (11-bit values)
FilterMasks == {0, 15, 1792, 2047}

FilterCodes == {0, 291, 1110}

FilterIds == {291, 1110, 339}

CanSetFilter ==
    /\ \E mask \in FilterMasks, filter \in FilterCodes :
          can' = RA4M1CAN_setFilter(can, mask, filter)
    /\ ret' = TRUE
    /\ UNCHANGED <<dispatcher, trip, serial, writer, slcan, hw, cmdBuffer, responseBuffer, hasResponse, cmdsProcessed,
                   transport, hostOut, hostResp, busCount, txCount, rxDropped>>

CanClearFilter ==
    /\ can' = RA4M1CAN_clearFilter(can)
    /\ ret' = TRUE
    /\ UNCHANGED <<dispatcher, trip, serial, writer, slcan, hw, cmdBuffer, responseBuffer, hasResponse, cmdsProcessed,
                   transport, hostOut, hostResp, busCount, txCount, rxDropped>>

CanRead ==
    /\ \E now \in Times : \E r \in {RA4M1CAN_read(can, hw, now)} :
          /\ can' = r.can
          /\ hw' = r.hw
          /\ ret' = r.ret
    /\ UNCHANGED <<dispatcher, trip, serial, writer, slcan, cmdBuffer, responseBuffer, hasResponse, cmdsProcessed,
                   transport, hostOut, hostResp, busCount, txCount, rxDropped>>

\* frames with any of the identifiers
BusMixed == BusArrives(FilterIds, MaxRxBurst)

NextFilter == CanBegin \/ CanEnd \/ CanSetFilter \/ CanClearFilter \/ CanRead \/ BusMixed

SpecFilter == Init /\ [][NextFilter]_vars

(***************************************************************************)
(* SpecAccept: the gateway as main.cpp wires it, under the filter setup   *)
(* M000007FF / m00000123, open and close, and bus frames with the         *)
(* identifiers 0x123 and 0x456.                                            *)
(***************************************************************************)
OpenCloseLines == { <<"O">>, <<"C">> }

SetFilterLines ==
    { <<"M", "0", "0", "0", "0", "0", "7", "F", "F">>,
      <<"m", "0", "0", "0", "0", "0", "1", "2", "3">> }

\* an O or C command
LoopOpenClose ==
    \E cmd \in OpenCloseLines : \E devOk \in DevOutcomes(cmd) : Command(cmd, devOk)

\* the M000007FF or the m00000123 command
LoopSetFilter ==
    \E cmd \in SetFilterLines : Command(cmd, TRUE)

BusPair == BusArrives(BusIds, MaxPairFrames)

NextAccept == LoopOpenClose \/ LoopSetFilter \/ LoopPoll \/ BusPair

SpecAccept == Init /\ [][NextAccept]_vars

(***************************************************************************)
(* SpecScenario: the gateway as main.cpp wires it, under the command      *)
(* lines S6, O and t1233AABBCC in any order.                               *)
(***************************************************************************)
ScenarioLines ==
    { <<"S", "6">>, <<"O">>,
      <<"t", "1", "2", "3", "3", "A", "A", "B", "B", "C", "C">> }

\* one of the three lines
LoopScenario ==
    /\ txCount < MaxTxCmds
    /\ \E cmd \in ScenarioLines : \E devOk \in DevOutcomes(cmd) : Command(cmd, devOk)

NextScenario == LoopScenario \/ LoopPoll \/ HwTxComplete

SpecScenario == Init /\ [][NextScenario]_vars

(***************************************************************************)
(* SpecReply: the gateway as main.cpp wires it, under channel commands    *)
(* and the commands whose response is longer than one byte (F, V, N).     *)
(***************************************************************************)
InfoLines == { <<"F">>, <<"V">>, <<"N">> }

\* an F, V or N command
LoopInfo ==
    /\ transport.cmdResponseDropCount < MaxRespDrops
    /\ \E cmd \in InfoLines : Command(cmd, TRUE)

NextReply == LoopChannel \/ LoopInfo \/ LoopPoll

SpecReply == Init /\ [][NextReply]_vars

(***************************************************************************)
(* SpecWrite: SerialTransport::writeWithPriority called directly and      *)
(* stepped through its wait loop.  The sink's free space and the          *)
(* millisecond clock are state of the environment: the space changes at   *)
(* any time, the clock advances.  SpecWriteFair adds that the call in     *)
(* progress keeps running and the clock keeps advancing.                  *)
(***************************************************************************)
\* payloads: a forwarded frame line, a version response
Payloads ==
    { <<"t", "1", "2", "3", "0", "CR">>, <<"V", "0", "1", "0", "2">> }

Priorities == {"COMMAND_RESPONSE", "CAN_RX_FRAME"}

\* values of Serial.availableForWrite(): unknown or none, a few bytes, ample
SinkSpace == {0, 2, 64}

\* the call up to the wait loop: a best-effort call and a call that finds
\* space return at once, a response-critical call short of space starts
\* to wait
WriteCall(data, prio) ==
    /\ writer.pc = "idle"
    /\ Len(hostOut) < MaxWrites
    /\ transport.cmdResponseDropCount + transport.canTxDropCount < MaxRespDrops
    /\ IF serial.space > 0 /\ serial.space < Len(data) /\ prio = "COMMAND_RESPONSE"
       THEN /\ writer' = [pc |-> "waiting", data |-> data,
                          available |-> serial.space, start |-> serial.clock]
            /\ UNCHANGED <<transport, hostOut, ret>>
       ELSE \E w \in {writeWithPriority(transport, data, prio, serial.space, FALSE)} :
               /\ transport' = w.transport
               /\ ret' = w.ret
               /\ hostOut' = IF w.ret THEN Append(hostOut, w.written) ELSE hostOut
               /\ UNCHANGED writer
    /\ UNCHANGED <<dispatcher, trip, serial, slcan, can, hw, cmdBuffer, responseBuffer, hasResponse,
                   cmdsProcessed, hostResp, busCount, txCount, rxDropped>>

TransportWrite == \E data \in Payloads, prio \in Priorities : WriteCall(data, prio)

\* one evaluation of the wait loop: leave it and write when the sink has
\* space for the payload, drop when the timeout has expired, else go round
WaitLoop ==
    /\ writer.pc = "waiting"
    /\ \/ /\ serial.space >= Len(writer.data)
          /\ \E w \in {writeWithPriority(transport, writer.data, "COMMAND_RESPONSE",
                                         writer.available, TRUE)} :
                /\ transport' = w.transport
                /\ ret' = w.ret
                /\ hostOut' = Append(hostOut, w.written)
       \/ /\ serial.space < Len(writer.data)
          /\ waitExpired(writer.start, serial.clock)
          /\ \E w \in {writeWithPriority(transport, writer.data, "COMMAND_RESPONSE",
                                         writer.available, FALSE)} :
                /\ transport' = w.transport
                /\ ret' = w.ret
                /\ hostOut' = hostOut
    /\ writer' = [pc |-> "idle", data |-> <<>>, available |-> 0, start |-> 0]
    /\ UNCHANGED <<dispatcher, trip, serial, slcan, can, hw, cmdBuffer, responseBuffer, hasResponse,
                   cmdsProcessed, hostResp, busCount, txCount, rxDropped>>

\* the host drains the sink or data fills it
SinkChanges ==
    /\ \E n \in SinkSpace \ {serial.space} : serial' = [serial EXCEPT !.space = n]
    /\ UNCHANGED <<dispatcher, trip, writer, slcan, can, hw, cmdBuffer, responseBuffer, hasResponse,
                   cmdsProcessed, transport, hostOut, hostResp, busCount, txCount,
                   rxDropped, ret>>

\* millis() advances by one
Tick ==
    /\ serial' = [serial EXCEPT !.clock = (@ + 1) % ClockMod]
    /\ UNCHANGED <<dispatcher, trip, writer, slcan, can, hw, cmdBuffer, responseBuffer, hasResponse,
                   cmdsProcessed, transport, hostOut, hostResp, busCount, txCount,
                   rxDropped, ret>>

NextWrite == TransportWrite \/ WaitLoop \/ SinkChanges \/ Tick

SpecWrite == Init /\ [][NextWrite]_vars

\* The wait loop is a busy loop that tests its two exits on every round, so
\* an exit that is open again and again is taken; the clock keeps advancing.
\* Nothing is assumed of the sink.
SpecWriteFair == SpecWrite /\ SF_vars(WaitLoop) /\ WF_vars(Tick)

(***************************************************************************)
(* SpecLine: the host sends bytes and readLine is called.  The host's     *)
(* n-th line is made of the digit n, so that lines can be told apart; a   *)
(* line ends with CR or LF, and terminators may follow one another        *)
(* (bareSent records that one was sent with no line to end).              *)
(***************************************************************************)
Terminators == {"CR", "LF"}

\* one more byte from the host: a byte of the current line or a terminator
HostSends ==
    /\ Len(serial.incoming) < MaxIncoming
    /\ \/ /\ serial.lineNo <= MaxLines
          /\ serial.lineLen < SERIAL_RX_BUFFER_SIZE
          /\ serial' = [serial EXCEPT !.incoming = Append(@, nibbleToHexChar(serial.lineNo)),
                                      !.lineLen = @ + 1]
       \/ \E c \in Terminators :
             serial' = [serial EXCEPT !.incoming = Append(@, c),
                                      !.lineNo = IF serial.lineLen > 0 THEN @ + 1 ELSE @,
                                      !.lineLen = 0,
                                      !.bareSent = @ \/ serial.lineLen = 0]
    /\ UNCHANGED <<dispatcher, slcan, can, hw, cmdBuffer, responseBuffer, hasResponse,
                   cmdsProcessed, transport, hostOut, hostResp, busCount, txCount,
                   rxDropped, ret, writer, trip>>

\* transport.readLine(cmdBuffer, sizeof(cmdBuffer)) as loop() calls it
ReadLine ==
    /\ \E r \in {readLine(transport, serial.incoming, CMD_BUFFER_SIZE)} :
          /\ r.transport.cmdOverflowCount <= MaxCmdOverflow
          /\ transport' = r.transport
          /\ ret' = r.ret
          /\ cmdBuffer' = IF r.ret THEN r.buffer ELSE cmdBuffer
    /\ serial' = [serial EXCEPT !.incoming = <<>>]
    /\ UNCHANGED <<dispatcher, slcan, can, hw, responseBuffer, hasResponse,
                   cmdsProcessed, hostOut, hostResp, busCount, txCount,
                   rxDropped, writer, trip>>

NextLine == HostSends \/ ReadLine

SpecLine == Init /\ [][NextLine]_vars

(***************************************************************************)
(* SpecErr: commands of every kind, well formed and not, in every channel *)
(* state, with frames queued for transmission and frames waiting in the   *)
(* receive ring.                                                          *)
(***************************************************************************)
\* S with a supported digit and with an unsupported one
ErrSetupLines == { <<"S", "4">>, <<"S", "3">> }

ErrStateLines == { <<"M", "0", "0", "0", "0", "0", "7", "F", "F">> }

\* lines no handler accepts in any channel state
BadLines ==
    { <<"s", "0", "0", "1", "4">>,
      <<"Z", "2">>,
      <<"M", "7", "F", "F">>,
      <<"t", "8", "0", "0", "0">>,
      <<"X", "1">> }

LoopErrSetup == \E cmd \in ErrSetupLines : Command(cmd, TRUE)

\* a well-formed M command
LoopErrState == \E cmd \in ErrStateLines : Command(cmd, TRUE)

LoopBadLine == \E cmd \in BadLines : Command(cmd, TRUE)

\* a t command
LoopTransmitStd == Transmit({"t"}, MaxTxCmds)

\* frames with identifier 0x123 on the bus
BusSame == BusArrives({291}, MaxPairFrames)

NextErr ==
    \/ LoopOpenClose
    \/ LoopErrSetup
    \/ LoopErrState
    \/ LoopTransmitStd
    \/ LoopBadLine
    \/ LoopPoll
    \/ BusSame

SpecErr == Init /\ [][NextErr]_vars

(***************************************************************************)
(* SpecSetup: S commands of every shape in every channel state.            *)
(***************************************************************************)
\* S with each digit, with characters that are no digit 0-8, and bare
SetupLines ==
    { <<"S", d>> : d \in {"0", "1", "2", "3", "4", "5", "6", "7", "8", "9", "A", "/"} }
        \cup { <<"S">> }

LoopSetup == \E cmd \in SetupLines : Command(cmd, TRUE)

NextSetup == LoopChannel \/ LoopSetup \/ LoopPoll

SpecSetup == Init /\ [][NextSetup]_vars

(***************************************************************************)
(* SpecParse: transmit lines of every shape, well formed, defective and   *)
(* over-long, sent while the channel is Open or Closed.                    *)
(***************************************************************************)
\* lines with every field as declared, in upper and in lower case
GoodLines ==
    { <<"t", "1", "2", "3", "0">>,
      <<"t", "7", "F", "F", "1", "A", "B">>,
      <<"t", "7", "f", "f", "2", "a", "b", "C", "d">>,
      <<"t", "0", "0", "0", "8", "0", "1", "2", "3", "4", "5", "6", "7",
        "8", "9", "a", "B", "c", "D", "e", "F">>,
      <<"T", "1", "F", "F", "F", "F", "F", "F", "F", "0">>,
      <<"T", "1", "f", "f", "f", "f", "f", "f", "f", "1", "a", "b">>,
      <<"r", "1", "2", "3", "0">>,
      <<"r", "7", "f", "f", "8">>,
      <<"R", "0", "0", "0", "0", "0", "1", "2", "3", "4">> }

\* lines that are too short, hold a character that is no hex digit, name an
\* identifier out of range or a data length code above 8
DefectLines ==
    { <<"t">>,
      <<"t", "1", "2">>,
      <<"t", "1", "2", "3">>,
      <<"t", "1", "2", "3", "1">>,
      <<"t", "1", "2", "3", "1", "A">>,
      <<"t", "1", "2", "3", "2", "A", "B", "C">>,
      <<"t", "8", "0", "0", "0">>,
      <<"t", "F", "F", "F", "0">>,
      <<"t", "1", "2", "G", "0">>,
      <<"t", "x", "2", "3", "0">>,
      <<"t", "1", "2", "3", "G">>,
      <<"t", "1", "2", "3", "9">>,
      <<"t", "1", "2", "3", "A">>,
      <<"t", "1", "2", "3", "f">>,
      <<"t", "1", "2", "3", "1", "G", "A">>,
      <<"t", "1", "2", "3", "1", "A", "g">>,
      <<"T", "0", "0", "0", "0", "0", "1", "2">>,
      <<"T", "0", "0", "0", "0", "0", "1", "2", "3">>,
      <<"T", "2", "0", "0", "0", "0", "0", "0", "0", "0">>,
      <<"T", "0", "0", "0", "0", "0", "1", "2", "G", "0">>,
      <<"T", "0", "0", "0", "0", "0", "1", "2", "3", "9">>,
      <<"T", "0", "0", "0", "0", "0", "1", "2", "3", "1", "A">>,
      <<"r", "1", "2">>,
      <<"r", "8", "0", "0", "0">>,
      <<"r", "1", "2", "3", "9">>,
      <<"r", "1", "2", "3", "Z">>,
      <<"R", "0", "0", "0", "0", "0", "1", "2", "3">>,
      <<"R", "2", "F", "F", "F", "F", "F", "F", "F", "0">>,
      <<"R", "0", "0", "0", "0", "0", "1", "2", "3", "9">> }

\* lines with every field as declared and further characters after them
LongLines ==
    { <<"t", "1", "2", "3", "0", "A", "B">>,
      <<"t", "1", "2", "3", "1", "A", "B", "C", "D">>,
      <<"t", "1", "2", "3", "1", "A", "B", "G">>,
      <<"T", "0", "0", "0", "0", "0", "1", "2", "3", "0", "F", "F">>,
      <<"r", "1", "2", "3", "0", "A", "A">>,
      <<"r", "1", "2", "3", "2", "A">>,
      <<"R", "0", "0", "0", "0", "0", "1", "2", "3", "0", "0">> }

ParseLines == GoodLines \cup DefectLines \cup LongLines

\* a transmit line; txCount is capped at MaxParseTx
LoopParse ==
    \E cmd \in ParseLines :
        /\ \E d \in {dispatch(slcan, can, hw, cmd, TRUE)} : txCount + d.writes <= MaxParseTx
        /\ Command(cmd, TRUE)

NextParse == LoopOpenClose \/ LoopParse \/ LoopPoll

SpecParse == Init /\ [][NextParse]_vars

(***************************************************************************)
(* SpecMask: M and m lines of every shape while the channel is Closed or  *)
(* Open.                                                                   *)
(***************************************************************************)
\* eight hex digits; four digits; none; a character that is no hex digit;
\* eight hex digits and more
MaskLines ==
    { <<"M", "0", "0", "0", "0", "0", "7", "F", "F">>,
      <<"m", "0", "0", "0", "0", "0", "1", "2", "3">>,
      <<"M", "0", "0", "0", "0", "0", "7", "f", "0">>,
      <<"M", "0", "7", "F", "F">>,
      <<"m", "0", "1", "2", "3">>,
      <<"M">>,
      <<"m", "0", "0", "0", "0", "0", "1", "2", "G">>,
      <<"M", "x", "0", "0", "0", "0", "7", "F", "F">>,
      <<"M", "0", "0", "0", "0", "0", "0", "0", "F", "A", "B">>,
      <<"m", "0", "0", "0", "0", "0", "4", "5", "6", "0">>,
      <<"m", "0", "0", "0", "0", "0", "4", "5", "6", "Z">> }

LoopMask == \E cmd \in MaskLines : Command(cmd, TRUE)

NextMask == LoopOpenClose \/ LoopMask \/ LoopPoll

SpecMask == Init /\ [][NextMask]_vars

(***************************************************************************)
(* SpecTrip: formatFrame applied to a valid frame and parseFrame applied  *)
(* to its text as the handler of the text's command letter applies it,    *)
(* with the timestamp suffix switched on and off by Z commands.  A remote *)
(* frame carries no data: its data bytes are zero, as in every remote     *)
(* frame the program builds.                                              *)
(***************************************************************************)
StampLines == { <<"Z", "0">>, <<"Z", "1">> }

LoopStamp == \E cmd \in StampLines : Command(cmd, TRUE)

\* smallest, middle and largest identifiers of each kind
TripIds(extended) == IF extended THEN {0, 305419896, 536870911} ELSE {0, 291, 2047}

\* data bytes 01 23 45 67 89 AB CD EF
TripData == { <<1, 35, 69, 103, 137, 171, 205, 239>> }

TripStamps == {43981}

TripFrames ==
    { [id |-> id, dlc |-> dlc,
       data |-> [i \in 1..8 |-> IF ~rtr /\ i <= dlc THEN bytes[i] ELSE 0],
       extended |-> extended, rtr |-> rtr, timestamp |-> stamp] :
        extended \in BOOLEAN, rtr \in BOOLEAN,
        id \in TripIds(TRUE) \cup TripIds(FALSE),
        dlc \in 0..8, bytes \in TripData, stamp \in TripStamps }

ValidTripFrames == { f \in TripFrames : f.id \in TripIds(f.extended) }

\* the buffer poll formats into
FormatParse ==
    /\ \E frame \in ValidTripFrames :
          \E line \in {formatFrame(slcan, frame, SLCAN_MAX_EXT_FRAME_LEN)} :
             trip' = [done |-> TRUE, frame |-> frame, line |-> line,
                      parsed |-> parseFrame(line, At(line, 0) \in {"T", "R"},
                                            At(line, 0) \in {"r", "R"})]
    /\ UNCHANGED <<dispatcher, slcan, can, hw, cmdBuffer, responseBuffer, hasResponse,
                   cmdsProcessed, transport, hostOut, hostResp, busCount, txCount,
                   rxDropped, ret, serial, writer>>

NextTrip == LoopStamp \/ FormatParse \/ LoopPoll

SpecTrip == Init /\ [][NextTrip]_vars

(***************************************************************************)
(* SpecStatus: the F command after transmit commands have filled the      *)
(* transmit queue and a burst on the bus has overflowed the receive ring. *)
(***************************************************************************)
LoopStatus ==
    /\ transport.cmdResponseDropCount < MaxRespDrops
    /\ Command(<<"F">>, TRUE)

NextStatus == LoopOpenClose \/ LoopTransmitStd \/ LoopStatus \/ LoopPoll \/ BusBurst

SpecStatus == Init /\ [][NextStatus]_vars

(***************************************************************************)
(* The dispatcher on its own: handlers are registered and unregistered in  *)
(* any order, the null pointer included, and lines are dispatched: the     *)
(* empty line, lines the SLCAN handler claims, lines only other handlers   *)
(* claim, a line several claim and a line nobody claims.                   *)
(***************************************************************************)
DispatchLines == {<<>>, <<"V">>, <<"N">>, <<"?">>, <<"!">>, <<"#">>}

RegisterHandler ==
    /\ \E handler \in Handlers \cup {"nullptr"} :
       \E r \in {registerHandler(dispatcher, handler)} :
          /\ dispatcher' = [r.dispatcher EXCEPT !.op = "register", !.arg = handler,
                                                !.asked = <<>>, !.by = <<>>]
          /\ ret' = r.ret
    /\ UNCHANGED <<trip, serial, writer, slcan, can, hw, cmdBuffer, responseBuffer,
                   hasResponse, cmdsProcessed, transport, hostOut, hostResp,
                   busCount, txCount, rxDropped>>

UnregisterHandler ==
    /\ \E handler \in Handlers \cup {"nullptr"} :
       \E r \in {unregisterHandler(dispatcher, handler)} :
          /\ dispatcher' = [r.dispatcher EXCEPT !.op = "unregister", !.arg = handler,
                                                !.asked = <<>>, !.by = <<>>]
          /\ ret' = r.ret
    /\ UNCHANGED <<trip, serial, writer, slcan, can, hw, cmdBuffer, responseBuffer,
                   hasResponse, cmdsProcessed, transport, hostOut, hostResp,
                   busCount, txCount, rxDropped>>

\* dispatcher.dispatch(cmdBuffer, responseBuffer, sizeof(responseBuffer))
Dispatch ==
    /\ \E cmd \in DispatchLines :
       \E d \in {ProtocolDispatcher_dispatch(dispatcher, slcan, can, hw, cmd, TRUE)} :
          /\ cmdBuffer' = cmd
          /\ slcan' = d.slcan
          /\ can' = d.can
          /\ hw' = d.hw
          /\ hasResponse' = d.has
          /\ ret' = d.has
          /\ responseBuffer' = IF d.has THEN d.response ELSE responseBuffer
          /\ dispatcher' = [dispatcher EXCEPT !.op = "dispatch", !.arg = "nullptr",
                                              !.asked = d.asked, !.by = d.by]
    /\ UNCHANGED <<trip, serial, writer, cmdsProcessed, transport, hostOut, hostResp,
                   busCount, txCount, rxDropped>>

NextDispatch == RegisterHandler \/ UnregisterHandler \/ Dispatch

SpecDispatch == Init /\ [][NextDispatch]_vars

(***************************************************************************)
(* Every kind of command line in every channel state: O, L and C with both *)
(* outcomes of the controller's begin, one line for each other command     *)
(* letter, an unrecognized line and the empty line, with frames arriving   *)
(* from the bus and polls in between.                                      *)
(***************************************************************************)
MaxKindTx == 1

OtherLines ==
    { <<"S", "6">>,
      <<"s", "0", "0", "1", "4">>,
      <<"t", "1", "2", "3", "0">>,
      <<"T", "0", "0", "0", "0", "0", "1", "2", "3", "0">>,
      <<"r", "1", "2", "3", "0">>,
      <<"R", "0", "0", "0", "0", "0", "1", "2", "3", "0">>,
      <<"F">>, <<"V">>, <<"N">>,
      <<"Z", "1">>,
      <<"X", "1">>,
      <<"M", "0", "0", "0", "0", "0", "0", "0", "0">>,
      <<"m", "0", "0", "0", "0", "0", "0", "0", "0">>,
      <<"?">>,
      <<>> }

\* a line that is not an O, L or C command
LoopOther ==
    /\ transport.cmdResponseDropCount < MaxRespDrops
    /\ \E cmd \in OtherLines :
          /\ \E d \in {dispatch(slcan, can, hw, cmd, TRUE)} : txCount + d.writes <= MaxKindTx
          /\ Command(cmd, TRUE)

NextKinds == LoopChannel \/ LoopOther \/ LoopPoll \/ BusFrame

SpecKinds == Init /\ [][NextKinds]_vars

(***************************************************************************)
(* SpecLoop: loop() as it runs, with lines and frames arriving without     *)
(* end.  A pass of the command loop reads a line from the transport and    *)
(* dispatches it; when the limit is reached or readLine finds no line the  *)
(* loop ends and the handler is polled, with a host sink that takes every  *)
(* write.  The host sends whole lines, the lines of LoopLines over and     *)
(* over, and frames keep arriving on the bus; lines and frames are told    *)
(* apart by the slot they are queued in.  So that the state stays finite,  *)
(* hostOut holds the lines of the last poll only and the overflow counters *)
(* stop at MaxLoopCount.                                                   *)
(* SpecLoopFair: loop() is called again and again.                         *)
(***************************************************************************)
MaxLoopCount == 1

LoopLines == << <<"O">> >>

AtMost(n, max) == IF n > max THEN max ELSE n

HostLine ==
    /\ Len(serial.incoming) + 2 <= MaxIncoming
    /\ serial' = [serial EXCEPT !.incoming = @ \o LoopLines[serial.lineNo] \o <<"CR">>,
                                !.lineNo = (@ % Len(LoopLines)) + 1]
    /\ UNCHANGED <<dispatcher, trip, writer, slcan, can, hw, cmdBuffer, responseBuffer,
                   hasResponse, cmdsProcessed, transport, hostOut, hostResp, busCount,
                   txCount, rxDropped, ret>>

BusCycle ==
    /\ hw.started
    /\ Len(hw.rx) < HwRxSlots
    /\ hw' = [hw EXCEPT !.rx = Append(@, BusMsg(291, 1))]
    /\ UNCHANGED <<dispatcher, trip, serial, writer, slcan, can, cmdBuffer, responseBuffer,
                   hasResponse, cmdsProcessed, transport, hostOut, hostResp, busCount,
                   txCount, rxDropped, ret>>

\* the transport after the readLine call of a pass
AfterReadLine(r) ==
    [r.transport EXCEPT !.cmdOverflowCount = AtMost(@, MaxLoopCount)]

\* a pass of the while loop: readLine returns a line, which is dispatched
LoopRead ==
    /\ cmdsProcessed < MAX_CMDS_PER_LOOP
    /\ \E r \in {readLine(transport, serial.incoming, CMD_BUFFER_SIZE)} :
          /\ r.ret
          /\ \E tr \in {AfterReadLine(r)}, devOk \in DevOutcomes(r.buffer) :
                DispatchLine(tr, r.buffer, devOk)
    /\ serial' = [serial EXCEPT !.incoming = <<>>]
    /\ ret' = TRUE

\* the end of loop(): the limit is reached, or readLine returns false and
\* the loop is left; then pollAll
LoopEnd ==
    /\ \E r \in {readLine(transport, serial.incoming, CMD_BUFFER_SIZE)} :
          /\ cmdsProcessed >= MAX_CMDS_PER_LOOP \/ ~r.ret
          /\ \E tr \in {IF cmdsProcessed >= MAX_CMDS_PER_LOOP
                         THEN transport ELSE AfterReadLine(r)},
                now \in Times :
             \E p \in {poll(slcan, can, hw, tr, <<>>, now,
                            [k \in 1..MAX_FRAMES_PER_POLL |-> 64])} :
                /\ slcan' = [p.slcan EXCEPT !.rxOverflowCount = AtMost(@, MaxLoopCount)]
                /\ can' = p.can
                /\ hw' = p.hw
                /\ transport' = p.transport
                /\ hostOut' = p.hostOut
          /\ serial' = IF cmdsProcessed >= MAX_CMDS_PER_LOOP
                       THEN serial ELSE [serial EXCEPT !.incoming = <<>>]
          /\ ret' = IF cmdsProcessed >= MAX_CMDS_PER_LOOP THEN ret ELSE FALSE
    /\ cmdsProcessed' = 0
    /\ UNCHANGED <<dispatcher, trip, writer, cmdBuffer, responseBuffer, hasResponse,
                   hostResp, busCount, txCount, rxDropped>>

NextLoop == HostLine \/ BusCycle \/ LoopRead \/ LoopEnd

SpecLoop == Init /\ [][NextLoop]_vars

SpecLoopFair == SpecLoop /\ WF_vars(LoopRead \/ LoopEnd)

(***************************************************************************)
(* Observations used by the properties.                                    *)
(***************************************************************************)
\* the frames waiting in the adapter's transmit queue, oldest first
TxQueueSeq(c) ==
    [i \in 1..c.txQueueCount |-> c.txQueue[(c.txQueueTail + i - 1) % CAN_TX_QUEUE_SIZE]]

\* the frames waiting in the handler's receive ring, oldest first
RxRingSeq(s) ==
    [i \in 1..((s.rxHead - s.rxTail + CAN_RX_QUEUE_SIZE) % CAN_RX_QUEUE_SIZE) |->
        s.rxQueue[(s.rxTail + i - 1) % CAN_RX_QUEUE_SIZE].msg]

\* the number carried by a forwarded line  t <id:3> <dlc:1> <data byte:2> CR
LineNum(line) == hexCharToNibble(line[6]) * 16 + hexCharToNibble(line[7])

TxNums(frames) == [i \in 1..Len(frames) |-> TxNum(frames[i])]

RxNums(frames) == [i \in 1..Len(frames) |-> RxNum(frames[i])]

LineNums(lines) == [i \in 1..Len(lines) |-> LineNum(lines[i])]

Increasing(nums) == \A i, j \in 1..Len(nums) : i < j => nums[i] < nums[j]

(***************************************************************************)
(* Properties.                                                             *)
(***************************************************************************)

\* C1: an O or L command received while the channel is Open or ListenOnly
\* is answered with the error marker and leaves the channel state as it
\* was; a C command received while the channel is Closed is answered with
\* success (the empty response) and the channel stays Closed.
C1_ChannelCommandsOutOfState ==
    [][ /\ (/\ LoopChannel
            /\ cmdBuffer' \in { <<"O">>, <<"L">> }
            /\ slcan.state \in {"Open", "ListenOnly"})
           => (/\ hasResponse'
               /\ responseBuffer' = <<SLCAN_ERROR>>
               /\ slcan'.state = slcan.state)
        /\ (/\ LoopChannel
            /\ cmdBuffer' = <<"C">>
            /\ slcan.state = "Closed")
           => (/\ hasResponse'
               /\ responseBuffer' = <<>>
               /\ slcan'.state = "Closed") ]_vars

\* an O command was refused in listen-only state
C1_Witness ==
    /\ cmdBuffer = <<"O">>
    /\ responseBuffer = <<SLCAN_ERROR>>
    /\ slcan.state = "ListenOnly"
    /\ cmdsProcessed > 0

\* C2: a transmit command (t, T, r, R) received while the channel is Closed
\* or ListenOnly is answered with the error marker, calls the adapter's
\* write not at all and changes neither adapter nor controller; the
\* adapter's write, called while the adapter is not open or is listen-only,
\* returns failure and changes nothing; and nothing is handed to the
\* controller unless the adapter is open in normal mode.
C2_TransmitOnlyWhenOpenNormal ==
    [][ /\ (LoopTransmitAny /\ slcan.state # "Open")
           => (/\ responseBuffer' = <<SLCAN_ERROR>>
               /\ txCount' = txCount
               /\ can' = can
               /\ hw' = hw)
        /\ (GateWrite /\ (~can.isOpen \/ can.mode = "ListenOnly"))
           => (/\ ret' = FALSE
               /\ can' = can
               /\ hw' = hw)
        /\ (hw'.txLog # hw.txLog) => (can.isOpen /\ can.mode = "Normal") ]_vars

\* a transmit command was refused in listen-only state, and a direct write
\* was refused too: a write was counted and nothing reached the controller
C2_Witness ==
    /\ slcan.state = "ListenOnly"
    /\ can.isOpen
    /\ can.mode = "ListenOnly"
    /\ Len(cmdBuffer) > 0
    /\ cmdBuffer[1] \in {"t", "T", "r", "R"}
    /\ responseBuffer = <<SLCAN_ERROR>>
    /\ txCount > 0
    /\ ret = FALSE
    /\ hw.txLog = <<>>

\* C3: the transmit queue is serviced once per main-loop iteration, so a
\* frame waiting in the queue is eventually handed to the controller (the
\* queue empties, or the channel is closed, which empties it too), given
\* that the loop keeps running and the controller keeps completing
\* transmissions.
C3_QueuedFramesEventuallySent ==
    (can.txQueueCount > 0) ~> (can.txQueueCount = 0)

\* C4: frames are handed to the controller in the order the adapter's write
\* accepted them: the frames handed over so far followed by the queued
\* frames are in acceptance order; write hands nothing to the controller
\* while frames are queued and appends what it accepts to the queue;
\* servicing sends from the head of the queue and stops at the first frame
\* the controller refuses.
C4_TransmitOrder ==
    [][ /\ Increasing(TxNums(hw'.txLog) \o TxNums(TxQueueSeq(can')))
        /\ (CanWrite /\ can.txQueueCount > 0)
           => (/\ hw' = hw
               /\ ret' => TxQueueSeq(can') = Append(TxQueueSeq(can), TxFrame(txCount')))
        /\ CanService
           => \E k \in 0..can.txQueueCount :
                 /\ hw'.txLog = hw.txLog \o SubSeq(TxQueueSeq(can), 1, k)
                 /\ TxQueueSeq(can') = SubSeq(TxQueueSeq(can), k + 1, can.txQueueCount)
                 /\ (k < can.txQueueCount /\ can.isOpen) => hw'.txFree = 0 ]_vars

\* servicing has sent a queued frame after an immediately sent one and left
\* a later frame queued
C4_Witness ==
    /\ Len(hw.txLog) >= 2
    /\ can.txQueueTail # 0
    /\ can.txQueueCount > 0

\* C5: the transmit queue never holds more than CAN_TX_QUEUE_SIZE frames; a
\* transmit command whose write finds the queue full is answered with the
\* error marker, the queue-full counter goes up by one and the queue and
\* the controller are left as they were.
C5_TransmitQueueBounded ==
    [][ /\ can'.txQueueCount <= CAN_TX_QUEUE_SIZE
        /\ (/\ LoopTransmit
            /\ slcan.state = "Open"
            /\ can.txQueueCount = CAN_TX_QUEUE_SIZE)
           => (/\ responseBuffer' = <<SLCAN_ERROR>>
               /\ txCount' = txCount + 1
               /\ can' = [can EXCEPT !.txQueueFullCount = @ + 1]
               /\ hw' = hw) ]_vars

\* a transmit command was refused on a full queue
C5_Witness ==
    /\ slcan.state = "Open"
    /\ Len(cmdBuffer) > 0
    /\ cmdBuffer[1] \in {"t", "T"}
    /\ responseBuffer = <<SLCAN_ERROR>>
    /\ can.txQueueFullCount > 0
    /\ can.txQueueCount = CAN_TX_QUEUE_SIZE

\* C6: when the receive ring is full during a drain, the incoming frame is
\* dropped: the overflow counter goes up by one, the frames already in the
\* ring stay as they were, and the frame the overflow was counted for is
\* never buffered or forwarded afterwards.
C6_OverflowDropsIncoming ==
    [][ /\ (LoopPoll /\ slcan'.rxOverflowCount # slcan.rxOverflowCount)
           => slcan'.rxOverflowCount = slcan.rxOverflowCount + 1
        /\ \A n \in rxDropped' :
              /\ \A i \in 1..Len(RxRingSeq(slcan')) : RxNum(RxRingSeq(slcan')[i]) # n
              /\ \A i \in 1..Len(hostOut') : LineNum(hostOut'[i]) # n ]_vars

\* C7: forwarding never reorders frames: the lines written to the host, the
\* frames in the ring and the frames still in the controller are, in that
\* sequence, in arrival order; a poll whose write of a frame is refused
\* counts one drop, has written exactly the frames taken before it, and
\* leaves the frames after it in the ring in order.
C7_ForwardingKeepsOrder ==
    [][ /\ Increasing(LineNums(hostOut') \o RxNums(RxRingSeq(slcan')) \o RxNums(hw'.rx))
        /\ (LoopPoll /\ slcan'.canRxDropCount # slcan.canRxDropCount)
           => LET taken   == Len(hw.rx) - Len(hw'.rx)
                  had     == RxNums(RxRingSeq(slcan)) \o RxNums(SubSeq(hw.rx, 1, taken))
                  written == Len(hostOut') - Len(hostOut)
              IN  /\ slcan'.canRxDropCount = slcan.canRxDropCount + 1
                  /\ written < MAX_FRAMES_PER_POLL
                  /\ LineNums(hostOut') = LineNums(hostOut) \o SubSeq(had, 1, written)
                  /\ RxNums(RxRingSeq(slcan')) = SubSeq(had, written + 2, Len(had)) ]_vars

\* a poll wrote a frame, had the next one refused and left frames in the ring
C7_Witness ==
    /\ slcan.canRxDropCount > 0
    /\ Len(hostOut) > 0
    /\ slcan.rxHead # slcan.rxTail
    /\ cmdsProcessed = 0

\* C8: X0 and X1 are accepted with success; X0 disables and X1 enables the
\* forwarding of received frames.
C8_AutoForwardCommand ==
    (cmdBuffer \in ForwardLines)
    => (/\ responseBuffer = <<>>
        /\ slcan.autoForward = (cmdBuffer = <<"X", "1">>))

\* C9: poll does nothing while the channel is Closed or forwarding is
\* disabled: handler, adapter, controller, transport and host output are
\* left as they were; a line reaches the host only from a poll made while
\* the channel is open and forwarding is enabled.
C9_PollOnlyWhenOpen ==
    [][ /\ (LoopPoll /\ (slcan.state = "Closed" \/ ~slcan.autoForward))
           => (/\ slcan' = slcan
               /\ can' = can
               /\ hw' = hw
               /\ transport' = transport
               /\ hostOut' = hostOut)
        /\ (hostOut' # hostOut)
           => (/\ slcan.state \in {"Open", "ListenOnly"}
               /\ slcan.autoForward) ]_vars

\* the channel was closed with frames left in the ring and in the
\* controller, and a poll has run since
C9_Witness ==
    /\ cmdBuffer = <<"C">>
    /\ cmdsProcessed = 0
    /\ slcan.state = "Closed"
    /\ slcan.rxHead # slcan.rxTail
    /\ Len(hw.rx) > 0

\* C10: whenever the stored mask is 0 and the channel is open, after any
\* sequence of M, m, O, L and C commands, every frame on the bus passes the
\* adapter's filter.
C10_ZeroMaskAcceptsAll ==
    (slcan.filterMask = 0 /\ slcan.state # "Closed")
    => \A id \in BusIds : passesFilter(can, id)

\* bit k of the non-negative integer n
BitOf(n, k) == (n \div (2 ^ k)) % 2

\* (id & mask) == (code & mask), bit by bit: wherever the mask has a bit
\* set, identifier and code agree
MaskedEqual(id, mask, code) ==
    \A k \in 0..10 : BitOf(mask, k) = 1 => BitOf(id, k) = BitOf(code, k)

\* C11: with the filter enabled an identifier passes the adapter's filter
\* iff (id & mask) == (code & mask); with the filter disabled every
\* identifier passes; a read of a frame that does not pass takes the frame
\* out of the controller, stores nothing in the adapter and reports no
\* frame, and a read of a frame that passes reports it.
C11_AcceptanceFilter ==
    [][ /\ \A id \in FilterIds :
              passesFilter(can', id)
              = (~can'.filterEnabled
                 \/ MaskedEqual(id, can'.filterMask, can'.filterValue))
        /\ (CanRead /\ can.isOpen /\ Len(hw.rx) > 0)
           => (/\ hw'.rx = Tail(hw.rx)
               /\ can' = can
               /\ ret' = (~can.filterEnabled
                          \/ MaskedEqual(Head(hw.rx).id, can.filterMask,
                                         can.filterValue))) ]_vars

\* a frame has been taken out of the controller, the filter with mask
\* 0x700 and code 0x456 is in force and the last call reported failure
C11_Witness ==
    /\ can.isOpen
    /\ can.filterEnabled
    /\ can.filterMask = 1792
    /\ can.filterValue = 1110
    /\ ret = FALSE
    /\ busCount > Len(hw.rx)

\* the identifier shown by a forwarded line  t <id:3> ...
LineId(line) == parseHex(Skip(line, 1), SLCAN_STD_ID_LEN)

\* C12: a mask and code stored while Closed are applied to the adapter at
\* open; while the filter of M000007FF / m00000123 is in force, a bus frame
\* with id 0x456 taken from the controller is neither buffered nor
\* forwarded, and a bus frame with id 0x123 taken from the controller is
\* buffered or forwarded unless the host sink refused a write.
C12_StoredFilterAppliedAtOpen ==
    [][ /\ (/\ LoopOpenClose
            /\ slcan.state = "Closed"
            /\ slcan'.state = "Open"
            /\ slcan.filterMask # 0)
           => (/\ can'.filterEnabled
               /\ can'.filterMask = slcan.filterMask
               /\ can'.filterValue = slcan.filterCode)
        /\ (/\ LoopPoll
            /\ slcan.state = "Open"
            /\ can.filterEnabled
            /\ can.filterMask = 2047
            /\ can.filterValue = 291)
           => \A i \in 1..(Len(hw.rx) - Len(hw'.rx)) :
                 LET kept == \/ \E j \in 1..Len(RxRingSeq(slcan')) :
                                   RxNum(RxRingSeq(slcan')[j]) = RxNum(hw.rx[i])
                             \/ \E j \in (Len(hostOut) + 1)..Len(hostOut') :
                                   /\ LineNum(hostOut'[j]) = RxNum(hw.rx[i])
                                   /\ LineId(hostOut'[j]) = hw.rx[i].id
                 IN  /\ hw.rx[i].id = 1110 => ~kept
                     /\ (hw.rx[i].id = 291
                         /\ slcan'.canRxDropCount = slcan.canRxDropCount) => kept
        /\ \A j \in (Len(hostOut) + 1)..Len(hostOut') :
              (can.filterEnabled /\ can.filterMask = 2047 /\ can.filterValue = 291
               /\ \E i \in 1..Len(hw.rx) : RxNum(hw.rx[i]) = LineNum(hostOut'[j]))
              => LineId(hostOut'[j]) = 291 ]_vars

\* after the filter setup and the open, two frames arrived: one was
\* forwarded with id 0x123 and the other was taken and not forwarded
C12_Witness ==
    /\ cmdBuffer = <<"O">>
    /\ slcan.state = "Open"
    /\ can.filterEnabled
    /\ can.filterMask = 2047
    /\ can.filterValue = 291
    /\ busCount = 2
    /\ hw.rx = <<>>
    /\ slcan.rxHead = slcan.rxTail
    /\ slcan.canRxDropCount = 0
    /\ Len(hostOut) = 1
    /\ LineId(hostOut[1]) = 291

\* the frame of the line t1233AABBCC
ScenarioFrame ==
    [id |-> 291, dlc |-> 3, data |-> <<170, 187, 204, 0, 0, 0, 0, 0>>,
     extended |-> FALSE, rtr |-> FALSE, timestamp |-> 0]

\* C13: from the initial state with the hardware accepting frames, the
\* lines S6, O, t1233AABBCC in that order are answered CR, CR and z CR, and
\* exactly one frame reaches the controller: standard id 0x123, dlc 3, data
\* AA BB CC and the remaining data bytes zero.  Stated step by step: S6
\* while Closed is answered CR; O while Closed with the controller starting
\* is answered CR and opens the channel; the line t1233AABBCC while Open,
\* with nothing queued and a free transmit slot, is answered z CR and
\* hands exactly that frame to the controller.
C13_SetupOpenTransmit ==
    [][ /\ (LoopScenario /\ cmdBuffer' = <<"S", "6">> /\ slcan.state = "Closed")
           => (/\ hostResp' = <<"CR">>
               /\ slcan'.configuredBitrate = 6
               /\ hw' = hw)
        /\ (LoopScenario /\ cmdBuffer' = <<"O">> /\ slcan.state = "Closed"
            /\ hw'.started)
           => (/\ hostResp' = <<"CR">>
               /\ slcan'.state = "Open"
               /\ can'.isOpen
               /\ can'.mode = "Normal"
               /\ hw'.txLog = hw.txLog)
        /\ (LoopScenario /\ Len(cmdBuffer') > 0 /\ cmdBuffer'[1] = "t"
            /\ slcan.state = "Open" /\ can.txQueueCount = 0 /\ hw.txFree > 0)
           => (/\ hostResp' = <<"z", "CR">>
               /\ hw'.txLog = Append(hw.txLog, ScenarioFrame)
               /\ can'.txQueueCount = 0) ]_vars

\* the three lines have been processed in order from the initial state
C13_Witness ==
    /\ cmdBuffer = <<"t", "1", "2", "3", "3", "A", "A", "B", "B", "C", "C">>
    /\ hostResp = <<"z", "CR">>
    /\ slcan.configuredBitrate = 6
    /\ slcan.state = "Open"
    /\ txCount = 1
    /\ hw.txLog = <<ScenarioFrame>>

\* C14: when the response-critical write of a command's response finds no
\* space within the timeout, the host receives no byte for that command,
\* neither body nor CR, and the response-drop counter goes up; otherwise
\* the host receives the handler's response followed by CR.  The host
\* never receives anything else, such as a bare CR in place of a payload.
C14_ResponseWholeOrAbsent ==
    [][ (cmdsProcessed' = cmdsProcessed + 1 /\ hasResponse')
        => \/ (/\ hostResp' = responseBuffer' \o <<"CR">>
               /\ transport' = transport)
           \/ (/\ hostResp' = <<>>
               /\ transport'.cmdResponseDropCount > transport.cmdResponseDropCount) ]_vars

\* C15: a best-effort (CAN_RX_FRAME) write whose payload is longer than the
\* sink's available space, zero included, writes nothing, returns failure
\* without waiting and counts one drop; and every writeWithPriority call
\* places its whole payload or nothing.
C15_BestEffortDropsWhenNoSpace ==
    [][\A data \in Payloads :
          /\ (WriteCall(data, "CAN_RX_FRAME") /\ serial.space < Len(data)
               => /\ hostOut' = hostOut
                  /\ ret' = FALSE
                  /\ writer'.pc = "idle"
                  /\ transport'.canTxDropCount = transport.canTxDropCount + 1)
          /\ \A prio \in Priorities :
                WriteCall(data, prio)
                => hostOut' = hostOut \/ hostOut' = Append(hostOut, data)]_vars

\* C16: a response-critical (COMMAND_RESPONSE) write that has to wait always
\* ends, whatever the sink does, provided the clock advances; it ends by
\* writing the whole payload when the sink reports room for it, or, once
\* more than the timeout has elapsed since the wait began, by writing
\* nothing, counting one response drop and returning failure.
C16_ResponseWriteTerminates ==
    /\ (writer.pc = "waiting") ~> (writer.pc = "idle")
    /\ [][writer.pc = "waiting" /\ writer'.pc = "idle"
           => \/ /\ serial.space >= Len(writer.data)
                 /\ hostOut' = Append(hostOut, writer.data)
                 /\ ret' = TRUE
                 /\ transport' = transport
              \/ /\ serial.space < Len(writer.data)
                 /\ (serial.clock - writer.start) % ClockMod > WRITE_TIMEOUT_MS
                 /\ hostOut' = hostOut
                 /\ ret' = FALSE
                 /\ transport' = [transport EXCEPT !.cmdResponseDropCount = @ + 1]]_vars

\* a response-critical write has timed out on a sink that had room for part
\* of the payload only, and a later one is waiting
C16_Witness ==
    /\ writer.pc = "waiting"
    /\ serial.space > 0
    /\ transport.cmdResponseDropCount > 0
    /\ ret = FALSE
    /\ hostOut = <<>>

\* what the protocol keeps between commands: channel state, configured
\* bitrate, stored filter, timestamp and auto-forward flags, the adapter's
\* open flag, mode and filter, and the queued and the waiting frames
ProtocolState ==
    [state |-> slcan.state, configuredBitrate |-> slcan.configuredBitrate,
     filterMask |-> slcan.filterMask, filterCode |-> slcan.filterCode,
     timestampEnabled |-> slcan.timestampEnabled, autoForward |-> slcan.autoForward,
     isOpen |-> can.isOpen, mode |-> can.mode, bitrate |-> can.bitrate,
     canFilter |-> <<can.filterEnabled, can.filterMask, can.filterValue>>,
     started |-> hw.started,
     txQueue |-> TxQueueSeq(can), rxRing |-> RxRingSeq(slcan)]

\* C17: a command answered with the error marker leaves the protocol state
\* as it was: channel state, configured bitrate, stored filter mask and
\* code, timestamp and auto-forward flags, the controller's open flag, mode
\* and filter, the transmit queue and the receive ring (the diagnostic
\* counters may change).
C17_ErrorLeavesStateUnchanged ==
    [][cmdsProcessed' = cmdsProcessed + 1 /\ hasResponse'
          /\ responseBuffer' = <<SLCAN_ERROR>>
       => ProtocolState' = ProtocolState]_vars

\* a transmit command was refused with the error marker while the channel
\* is open with a filter set and a rate other than the default, the
\* transmit queue is full and a frame waits in the receive ring
C17_Witness ==
    /\ hasResponse
    /\ responseBuffer = <<SLCAN_ERROR>>
    /\ cmdBuffer[1] = "t"
    /\ slcan.state = "Open"
    /\ slcan.filterMask # 0
    /\ slcan.configuredBitrate # SLCAN_BITRATE_500K
    /\ can.txQueueCount = CAN_TX_QUEUE_SIZE
    /\ can.txQueueFullCount > 0
    /\ Len(RxRingSeq(slcan)) > 0

\* the rate an S line names when the controller supports it, else 0
PresetOf(cmd) ==
    IF Len(cmd) < 2 THEN 0
    ELSE CASE cmd[2] = "4" -> 4
           [] cmd[2] = "5" -> 5
           [] cmd[2] = "6" -> 6
           [] cmd[2] = "8" -> 8
           [] OTHER -> 0

\* C18: an S command stores its rate exactly when the channel is Closed and
\* the digit is 4, 5, 6 or 8, and then answers OK; otherwise it answers the
\* error marker and the configured rate stays.  Nothing else changes the
\* configured rate, which is S6 at the start, and an open that succeeds
\* starts the controller at the configured rate.
C18_SetupStoresSupportedRate ==
    /\ slcan.configuredBitrate = 6
    /\ [][/\ \A cmd \in SetupLines :
               Command(cmd, TRUE)
               => IF slcan.state = "Closed" /\ PresetOf(cmd) # 0
                  THEN /\ slcan'.configuredBitrate = PresetOf(cmd)
                       /\ responseBuffer' = <<>>
                  ELSE /\ slcan'.configuredBitrate = slcan.configuredBitrate
                       /\ responseBuffer' = <<SLCAN_ERROR>>
          /\ slcan'.configuredBitrate # slcan.configuredBitrate
               => cmdBuffer' \in SetupLines /\ cmdsProcessed' = cmdsProcessed + 1
          /\ slcan.state = "Closed" /\ slcan'.state # "Closed"
               => /\ can'.isOpen
                  /\ can'.bitrate = slcan.configuredBitrate
                  /\ slcan'.configuredBitrate = slcan.configuredBitrate]_vars

\* S8 was stored and the channel opened at that rate; S4 sent while Open
\* was answered with the error marker
C18_Witness ==
    /\ slcan.state = "Open"
    /\ can.bitrate = 8
    /\ slcan.configuredBitrate = 8
    /\ cmdBuffer = <<"S", "4">>
    /\ responseBuffer = <<SLCAN_ERROR>>

\* the fields a transmit line declares, read off its text
IdDigits(cmd) == IF cmd[1] \in {"t", "r"} THEN 3 ELSE 8

IsDataLine(cmd) == cmd[1] \in {"t", "T"}

HexDigitChars ==
    {"0", "1", "2", "3", "4", "5", "6", "7", "8", "9",
     "A", "B", "C", "D", "E", "F", "a", "b", "c", "d", "e", "f"}

HexDigitValue(ch) == CHOOSE v \in 0..15 : ch \in {HexUpper[v + 1], HexLower[v + 1]}

RECURSIVE HexValue(_)
HexValue(digits) ==
    IF digits = <<>> THEN 0
    ELSE HexValue(SubSeq(digits, 1, Len(digits) - 1)) * 16
         + HexDigitValue(digits[Len(digits)])

DeclaredDlc(cmd) == HexDigitValue(cmd[IdDigits(cmd) + 2])

\* the defects of a transmit line: too short for the identifier and the dlc
\* digit, a character that is no hex digit among them, an identifier above
\* 0x7FF or 0x1FFFFFFF, a dlc above 8, and for a data frame too few data
\* digits or a character that is no hex digit among the 2 x dlc required
Defect(cmd) ==
    LET n == IdDigits(cmd)
    IN  \/ Len(cmd) < 1 + n + 1
        \/ \E i \in 2..(n + 2) : cmd[i] \notin HexDigitChars
        \/ HexValue(SubSeq(cmd, 2, n + 1)) > (IF n = 3 THEN 2047 ELSE 536870911)
        \/ DeclaredDlc(cmd) > 8
        \/ IsDataLine(cmd) /\ Len(cmd) < 1 + n + 1 + 2 * DeclaredDlc(cmd)
        \/ IsDataLine(cmd)
              /\ \E i \in (n + 3)..(n + 2 + 2 * DeclaredDlc(cmd)) : cmd[i] \notin HexDigitChars

\* the length of a line that holds its declared fields and nothing more
ExactLength(cmd) ==
    1 + IdDigits(cmd) + 1 + (IF IsDataLine(cmd) THEN 2 * DeclaredDlc(cmd) ELSE 0)

\* the frame a line without defect declares
DeclaredFrame(cmd) ==
    LET n == IdDigits(cmd)
    IN  [id |-> HexValue(SubSeq(cmd, 2, n + 1)),
         dlc |-> DeclaredDlc(cmd),
         data |-> [i \in 1..8 |->
                     IF IsDataLine(cmd) /\ i <= DeclaredDlc(cmd)
                     THEN HexValue(SubSeq(cmd, n + 1 + 2 * i, n + 2 + 2 * i))
                     ELSE 0],
         extended |-> (n = 8), rtr |-> ~IsDataLine(cmd), timestamp |-> 0]

\* the frame was handed to the controller, sent or queued
Written(frame) ==
    \/ hw'.txLog = Append(hw.txLog, frame) /\ can' = can
    \/ TxQueueSeq(can') = Append(TxQueueSeq(can), frame) /\ hw' = hw

\* C19: while the channel is Open, a t, T, r or R line with a defect (too
\* short, a non-hex character in the identifier, dlc or required data
\* digits, an identifier out of range, a dlc above 8) is answered with the
\* error marker and nothing is written to the controller; a line of the
\* declared length without defect, in upper or lower case, has its frame
\* written to the controller.
C19_DefectiveTransmitRejected ==
    [][/\ cmdsProcessed' = cmdsProcessed + 1
       /\ cmdBuffer' \in ParseLines
       /\ slcan.state = "Open"
       => IF Defect(cmdBuffer')
          THEN /\ responseBuffer' = <<SLCAN_ERROR>>
               /\ txCount' = txCount
               /\ can' = can
               /\ hw' = hw
          ELSE Len(cmdBuffer') = ExactLength(cmdBuffer')
               => /\ txCount' = txCount + 1
                  /\ Written(DeclaredFrame(cmdBuffer'))
                  /\ responseBuffer' =
                        <<IF IdDigits(cmdBuffer') = 3 THEN "z" ELSE "Z">>]_vars

\* the lower-case line t7ff2abCd was sent to the controller as id 0x7FF with
\* data AB CD, and then a line with dlc 9 was refused
C19_Witness ==
    /\ slcan.state = "Open"
    /\ Len(hw.txLog) = 1
    /\ hw.txLog[1].id = 2047
    /\ hw.txLog[1].data[1] = 171
    /\ hw.txLog[1].data[2] = 205
    /\ cmdBuffer = <<"t", "1", "2", "3", "9">>
    /\ responseBuffer = <<SLCAN_ERROR>>

\* C20: a transmit line is accepted only with exactly the digits its fields
\* declare: a t or T line whose length is not 1 + identifier digits + 1 +
\* 2 x dlc, or an r or R line whose length is not 1 + identifier digits + 1,
\* is answered with the error marker and nothing is written to the
\* controller.
C20_ExactLengthRequired ==
    [][/\ cmdsProcessed' = cmdsProcessed + 1
       /\ cmdBuffer' \in ParseLines
       /\ (Defect(cmdBuffer') \/ Len(cmdBuffer') # ExactLength(cmdBuffer'))
       => /\ responseBuffer' = <<SLCAN_ERROR>>
          /\ txCount' = txCount
          /\ can' = can
          /\ hw' = hw]_vars

\* C21: an M or m line is accepted exactly when eight hex digits and nothing
\* else follow the letter; any other line is answered with the error marker
\* and leaves the stored mask and code and the controller's filter as they
\* were.
C21_FilterNeedsEightDigits ==
    [][/\ cmdsProcessed' = cmdsProcessed + 1
       /\ cmdBuffer' \in MaskLines
       => IF /\ Len(cmdBuffer') = 9
             /\ \A i \in 2..9 : cmdBuffer'[i] \in HexDigitChars
          THEN responseBuffer' = <<>>
          ELSE /\ responseBuffer' = <<SLCAN_ERROR>>
               /\ slcan'.filterMask = slcan.filterMask
               /\ slcan'.filterCode = slcan.filterCode
               /\ can'.filterEnabled = can.filterEnabled
               /\ can'.filterMask = can.filterMask
               /\ can'.filterValue = can.filterValue]_vars

\* C22: formatting a valid frame (standard id up to 0x7FF or extended id up
\* to 0x1FFFFFFF, dlc 0..8, data or remote, bytes beyond dlc zero) and
\* parsing the text with the handler of its command letter gives back the
\* same identifier, dlc, extended flag, remote flag and data bytes, with
\* the timestamp suffix on or off.
C22_FormatParseRoundTrip ==
    trip.done
    => /\ trip.parsed.ok
       /\ trip.parsed.frame.id = trip.frame.id
       /\ trip.parsed.frame.dlc = trip.frame.dlc
       /\ trip.parsed.frame.extended = trip.frame.extended
       /\ trip.parsed.frame.rtr = trip.frame.rtr
       /\ trip.parsed.frame.data = trip.frame.data

\* an extended data frame with the largest identifier and eight bytes went
\* through with the timestamp suffix on
C22_Witness ==
    /\ trip.done
    /\ slcan.timestampEnabled
    /\ trip.frame.extended
    /\ ~trip.frame.rtr
    /\ trip.frame.id = 536870911
    /\ trip.frame.dlc = 8
    /\ trip.frame.timestamp = 43981
    /\ Len(trip.line) = 30
    /\ trip.parsed.ok

\* the flag byte of an Fxx response
StatusFlags(response) == HexDigitValue(response[2]) * 16 + HexDigitValue(response[3])

HasFlag(flags, bit) == (flags \div bit) % 2 = 1

\* C23: the F command is answered with Fxx in every channel state, and once
\* the transmit queue has refused a frame because it was full the TX-full
\* bit is set in the answer, and once the receive ring has overflowed the
\* RX-full or the data-overrun bit is set.
C23_StatusTracksSoftwareErrors ==
    [][cmdsProcessed' = cmdsProcessed + 1 /\ cmdBuffer' = <<"F">>
       => /\ Len(responseBuffer') = 3
          /\ responseBuffer'[1] = "F"
          /\ can.txQueueFullCount > 0
               => HasFlag(StatusFlags(responseBuffer'), SLCAN_STATUS_TX_FULL)
          /\ slcan.rxOverflowCount > 0
               => \/ HasFlag(StatusFlags(responseBuffer'), SLCAN_STATUS_RX_FULL)
                  \/ HasFlag(StatusFlags(responseBuffer'), SLCAN_STATUS_DATA_OVERRUN)]_vars

\* the lines waiting in the transport's command queue, oldest first
CmdQueueSeq(tr) ==
    [i \in 1..((tr.cmdHead - tr.cmdTail + SERIAL_CMD_QUEUE_SIZE) % SERIAL_CMD_QUEUE_SIZE) |->
        tr.cmdQueue[(tr.cmdTail + i - 1) % SERIAL_CMD_QUEUE_SIZE].buffer]

\* the transport after the first k of the bytes a readLine call drains
Drained(k) == processIncoming(transport, SubSeq(serial.incoming, 1, k))

\* C24: when the command queue holds all the lines it can and a terminator
\* ends one more non-empty line before a readLine has dequeued, the
\* overflow counter goes up by exactly one, the line is discarded, the
\* accumulator is reset, and the queued lines and their order stay.
C24_QueueOverflowDropsNewLine ==
    [][transport' # transport \/ serial'.incoming = <<>>
       => \A k \in 1..Len(serial.incoming) :
             LET before == Drained(k - 1)
                 after  == Drained(k)
             IN  /\ Len(CmdQueueSeq(before)) = SERIAL_CMD_QUEUE_SIZE - 1
                 /\ serial.incoming[k] \in Terminators
                 /\ before.rxAccumulator # <<>>
                 => /\ after.cmdOverflowCount = before.cmdOverflowCount + 1
                    /\ after.rxAccumulator = <<>>
                    /\ CmdQueueSeq(after) = CmdQueueSeq(before)
                    /\ after.cmdTail = before.cmdTail]_vars

\* one overflow was counted: the host's latest line is not in the queue,
\* the line before it is the newest queued one
C24_Witness ==
    /\ transport.cmdOverflowCount = 1
    /\ ret = TRUE
    /\ serial.incoming = <<>>
    /\ serial.lineLen = 0
    /\ Len(CmdQueueSeq(transport)) = SERIAL_CMD_QUEUE_SIZE - 2
    /\ SERIAL_CMD_QUEUE_SIZE > 2
    /\ CmdQueueSeq(transport)[SERIAL_CMD_QUEUE_SIZE - 2] = <<nibbleToHexChar(serial.lineNo - 2)>>

\* C25: every CR and every LF ends the current line: with an empty
\* accumulator it changes nothing, so a CR LF pair after a command enqueues
\* one command and terminators in a row enqueue none; with a non-empty
\* accumulator and room in the queue it enqueues the accumulated bytes, in
\* order, as the newest line.  Other bytes enqueue nothing, and no queued
\* line is empty or holds a CR or LF.
C25_LineFraming ==
    /\ [](\A i \in 1..Len(CmdQueueSeq(transport)) :
            /\ CmdQueueSeq(transport)[i] # <<>>
            /\ \A j \in 1..Len(CmdQueueSeq(transport)[i]) :
                  CmdQueueSeq(transport)[i][j] \notin {"CR", "LF"})
    /\ [][transport' # transport \/ serial'.incoming = <<>>
          => \A k \in 1..Len(serial.incoming) :
                LET before == Drained(k - 1)
                    after  == Drained(k)
                IN  IF serial.incoming[k] \in {"CR", "LF"}
                    THEN /\ after.rxAccumulator = <<>>
                         /\ before.rxAccumulator = <<>> => after = before
                         /\ before.rxAccumulator # <<>>
                               /\ Len(CmdQueueSeq(before)) < SERIAL_CMD_QUEUE_SIZE - 1
                            => CmdQueueSeq(after)
                                 = Append(CmdQueueSeq(before), before.rxAccumulator)
                    ELSE CmdQueueSeq(after) = CmdQueueSeq(before)]_vars

\* the host has sent its first line and a terminator that ended no line;
\* all was drained and exactly one command came out
C25_Witness ==
    /\ serial.bareSent
    /\ serial.lineNo = 2
    /\ serial.lineLen = 0
    /\ serial.incoming = <<>>
    /\ ret = TRUE
    /\ cmdBuffer = <<"1">>
    /\ CmdQueueSeq(transport) = <<>>
    /\ transport.rxAccumulator = <<>>
    /\ transport.cmdOverflowCount = 0

\* number of the host line a returned buffer came from (0 before any)
ReturnedLineNo(buf) == IF buf = <<>> THEN 0 ELSE hexCharToNibble(buf[1])

\* C26: a readLine call drains the bytes available, then returns none
\* exactly when the command queue is empty; otherwise it returns the oldest
\* queued line and leaves the younger ones queued in their order.  The lines
\* returned over the calls come in the order the host completed them, none
\* twice.
C26_ReadLineOldestFirst ==
    [][transport' # transport \/ serial'.incoming = <<>>
       => LET q == CmdQueueSeq(Drained(Len(serial.incoming)))
          IN  /\ ret' = (q # <<>>)
              /\ q = <<>> => /\ cmdBuffer' = cmdBuffer
                             /\ CmdQueueSeq(transport') = <<>>
              /\ q # <<>> => /\ cmdBuffer' = Head(q)
                             /\ CmdQueueSeq(transport') = Tail(q)
                             /\ ReturnedLineNo(cmdBuffer') > ReturnedLineNo(cmdBuffer)]_vars

\* the second line has been returned after the first while the third waits
C26_Witness ==
    /\ ret = TRUE
    /\ ReturnedLineNo(cmdBuffer) = 2
    /\ Len(CmdQueueSeq(transport)) = 1
    /\ ReturnedLineNo(CmdQueueSeq(transport)[1]) = 3
    /\ transport.cmdOverflowCount = 0

\* the registered handlers, in the order of the array
HandlerSeq(d) == [k \in 1..d.handlerCount |-> d.handlers[k - 1]]

\* positions of HandlerSeq(d) whose handler accepts the line
Accepting(d, cmd) ==
    {k \in 1..d.handlerCount : handlerCanHandle(d.handlers[k - 1], cmd)}

\* C27: dispatch asks the registered handlers in registration order and
\* hands the line to the first that accepts it, whose response is the
\* response; no handler after that one is asked.  The empty line is given
\* to nobody and has no response; a non-empty line that nobody accepts is
\* answered with the error marker.
C27_FirstAcceptingHandler ==
    [][dispatcher'.op = "dispatch" /\ <<dispatcher, cmdBuffer, responseBuffer, hasResponse>>'
                                       # <<dispatcher, cmdBuffer, responseBuffer, hasResponse>>
       => LET acc == Accepting(dispatcher, cmdBuffer')
              hs  == HandlerSeq(dispatcher)
          IN  /\ HandlerSeq(dispatcher') = hs
              /\ cmdBuffer' = <<>>
                    => /\ ~hasResponse'
                       /\ dispatcher'.asked = <<>>
                       /\ dispatcher'.by = <<>>
                       /\ responseBuffer' = responseBuffer
              /\ cmdBuffer' # <<>> /\ acc = {}
                    => /\ hasResponse'
                       /\ responseBuffer' = <<"BEL">>
                       /\ dispatcher'.by = <<>>
              /\ cmdBuffer' # <<>> /\ acc # {}
                    => LET first == CHOOSE k \in acc : \A y \in acc : k <= y
                       IN  /\ dispatcher'.asked = SubSeq(hs, 1, first)
                           /\ dispatcher'.by = <<hs[first]>>
                           /\ hasResponse'
                           /\ responseBuffer' =
                                 handlerProcessCommand(hs[first], slcan, can, hw,
                                                       cmdBuffer', TRUE).response]_vars

\* a line two registered handlers claim went to the one registered first,
\* and the later one was not asked
C27_Witness ==
    /\ dispatcher.op = "dispatch"
    /\ cmdBuffer = <<"?">>
    /\ HandlerSeq(dispatcher) = <<"slcan", "aux2", "aux1">>
    /\ dispatcher.asked = <<"slcan", "aux2">>
    /\ dispatcher.by = <<"aux2">>
    /\ responseBuffer = <<"aux2">>

\* C28: the handler list never holds a handler twice and never more than
\* MAX_PROTOCOL_HANDLERS.  Registering a registered handler returns true
\* and changes nothing; registering a new one fails exactly when the list
\* is full and otherwise puts it last.  Unregistering removes the handler
\* and keeps the others in their order.
C28_HandlerList ==
    /\ [](/\ dispatcher.handlerCount <= MAX_PROTOCOL_HANDLERS
          /\ \A i, j \in 1..dispatcher.handlerCount :
                HandlerSeq(dispatcher)[i] = HandlerSeq(dispatcher)[j] => i = j
          /\ \A i \in 1..dispatcher.handlerCount :
                HandlerSeq(dispatcher)[i] \in Handlers)
    /\ [][dispatcher' # dispatcher /\ dispatcher'.arg \in Handlers
          => LET hs      == HandlerSeq(dispatcher)
                 handler == dispatcher'.arg
                 known   == \E i \in 1..Len(hs) : hs[i] = handler
             IN  /\ dispatcher'.op = "register" /\ known
                       => ret' /\ HandlerSeq(dispatcher') = hs
                 /\ dispatcher'.op = "register" /\ ~known
                       => /\ ret' = (Len(hs) < MAX_PROTOCOL_HANDLERS)
                          /\ HandlerSeq(dispatcher') =
                                IF ret' THEN Append(hs, handler) ELSE hs
                 /\ dispatcher'.op = "unregister"
                       => /\ ret' = known
                          /\ HandlerSeq(dispatcher') =
                                SelectSeq(hs, LAMBDA x : x # handler)]_vars

\* a new handler was refused with the list full, after the handler
\* registered first had been unregistered and the others moved down
C28_Witness ==
    /\ dispatcher.op = "register"
    /\ dispatcher.arg \in Handlers
    /\ ret = FALSE
    /\ dispatcher.handlerCount = MAX_PROTOCOL_HANDLERS
    /\ \A i \in 1..dispatcher.handlerCount :
          HandlerSeq(dispatcher)[i] \notin {"slcan", dispatcher.arg}

\* C29: the channel state changes only in a step that processes an O, L or
\* C command: no other command line, recognized or not, no poll and no
\* arriving frame changes it.
C29_StateChangesOnlyOnOLC ==
    [][slcan'.state # slcan.state
       => /\ cmdsProcessed' = cmdsProcessed + 1
          /\ cmdBuffer' \in ChannelLines]_vars

\* the channel is still in listen-only mode after a transmit command was
\* refused, a frame was forwarded by a poll and the timestamps were switched on
C29_Witness ==
    /\ slcan.state = "ListenOnly"
    /\ slcan.timestampEnabled
    /\ cmdBuffer = <<"t", "1", "2", "3", "0">>
    /\ responseBuffer = <<"BEL">>
    /\ hostOut # <<>>

\* numbers of the frames a step hands to the controller
HandedNums(h1, h2) ==
    {TxNum(h2.txLog[i]) : i \in (Len(h1.txLog) + 1)..Len(h2.txLog)}

QueuedNums(c) == {TxNum(TxQueueSeq(c)[i]) : i \in 1..c.txQueueCount}

\* C30: the transmit queue is empty whenever the controller is not open,
\* after every end and after every successful begin, neither of which hands
\* a frame to the controller.  A frame reaches the controller only in the
\* write that accepts it or out of the queue, and the queue takes in only
\* the frame of the current write: a frame accepted before a close is
\* either with the controller by then or dropped, and is never handed over
\* afterwards.
C30_NoFrameSurvivesClose ==
    /\ [](~can.isOpen => can.txQueueCount = 0)
    /\ [][ /\ CanEnd
              => /\ ~can'.isOpen
                 /\ can'.txQueueCount = 0
                 /\ hw'.txLog = hw.txLog
           /\ (CanBegin /\ ret')
              => /\ can'.isOpen
                 /\ can'.txQueueCount = 0
                 /\ hw'.txLog = hw.txLog
           /\ HandedNums(hw, hw') \subseteq
                 QueuedNums(can) \cup (IF txCount' # txCount THEN {txCount'} ELSE {})
           /\ QueuedNums(can') \subseteq
                 QueuedNums(can) \cup (IF txCount' # txCount THEN {txCount'} ELSE {})
           /\ SubSeq(hw'.txLog, 1, Len(hw.txLog)) = hw.txLog ]_vars

\* frames 2 and 3 were queued behind frame 1 and dropped by a close: they
\* are still in the slots of the cleared queue, and the controller has got
\* frame 1 and, in the next session, frame 4
C30_Witness ==
    /\ can.isOpen
    /\ can.txQueueCount = 0
    /\ TxNum(can.txQueue[0]) = 2
    /\ TxNum(can.txQueue[1]) = 3
    /\ TxNums(hw.txLog) = <<1, 4>>

\* the receive ring has no free slot
RingFull(s) == (s.rxHead + 1) % CAN_RX_QUEUE_SIZE = s.rxTail

\* C31: with the channel open and forwarding enabled, the drain step of a
\* poll goes on until the controller has no received frame pending or the
\* ring is full: right after the drain, one of the two is the case.
C31_DrainUntilEmptyOrFull ==
    [][LoopPoll /\ slcan.state # "Closed" /\ slcan.autoForward
       => \A now \in Times :
             \E d \in {drainFromBackend(slcan, can, hw, now)} :
                d.hw.rx = <<>> \/ RingFull(d.slcan)]_vars

\* C32: a poll whose forward write is refused stops forwarding and keeps
\* the frames in the ring: the ring then holds the frames it held after the
\* drain less the ones written in this poll, so the frame whose write was
\* refused is at its front, ahead of the later frames, for the next poll.
C32_RefusedFrameStaysBuffered ==
    [][LoopPoll /\ slcan'.canRxDropCount # slcan.canRxDropCount
       => \A now \in Times :
             \E d \in {drainFromBackend(slcan, can, hw, now)} :
                LET drained == RxRingSeq(d.slcan)
                    written == Len(hostOut') - Len(hostOut)
                IN  /\ written < Len(drained)
                    /\ RxRingSeq(slcan') = SubSeq(drained, written + 1, Len(drained))]_vars

\* frames the drain step of the current step puts into the ring
InsertedNow ==
    IF LoopPoll /\ slcan.state # "Closed" /\ slcan.autoForward
    THEN Len(RxRingSeq(drainFromBackend(slcan, can, hw, CHOOSE now \in Times : TRUE).slcan)) - Len(RxRingSeq(slcan))
    ELSE 0

\* C33: every frame put into the receive ring is in the ring, was written
\* to the host or is counted in the forward-drop counter: each step changes
\* the sum of the three by the number of frames it inserts, and with every
\* arriving frame accepted the frames that have left the controller are
\* that sum.
C33_ReceiveAccounting ==
    /\ [](busCount - Len(hw.rx)
            = Len(RxRingSeq(slcan)) + Len(hostOut) + slcan.canRxDropCount)
    /\ [][Len(RxRingSeq(slcan')) + Len(hostOut') + slcan'.canRxDropCount
            = Len(RxRingSeq(slcan)) + Len(hostOut) + slcan.canRxDropCount + InsertedNow]_vars

\* of four frames inserted two were written, one was dropped on a refused
\* write and one is in the ring
C33_Witness ==
    /\ busCount = 4
    /\ hw.rx = <<>>
    /\ Len(hostOut) = 2
    /\ slcan.canRxDropCount = 1
    /\ Len(RxRingSeq(slcan)) = 1

\* C34: between two polls at most MAX_CMDS_PER_LOOP command lines are
\* dispatched: the count of lines since the last poll goes up by one with
\* every line, never exceeds the limit and is reset by the poll alone.  A
\* poll writes at most MAX_FRAMES_PER_POLL frames to the host, however many
\* are buffered.
C34_BoundedWorkPerIteration ==
    /\ [](cmdsProcessed <= MAX_CMDS_PER_LOOP)
    /\ [][ /\ <<cmdBuffer, responseBuffer, hasResponse, hostResp>>'
                 # <<cmdBuffer, responseBuffer, hasResponse, hostResp>>
              => cmdsProcessed' = cmdsProcessed + 1
           /\ cmdsProcessed' < cmdsProcessed => LoopPoll
           /\ LoopPoll => /\ cmdsProcessed' = 0
                          /\ Len(hostOut') - Len(hostOut) <= MAX_FRAMES_PER_POLL
           /\ ~LoopPoll => hostOut' = hostOut ]_vars

\* after the full number of command lines, a poll has written the full
\* number of frames and left a buffered frame for the next iteration
C34_Witness ==
    /\ cmdsProcessed = 0
    /\ Len(cmdBuffer) > 0
    /\ Len(hostOut) = MAX_FRAMES_PER_POLL
    /\ slcan.canRxDropCount = 0
    /\ Len(RxRingSeq(slcan)) >= 1

\* slot j of the command queue holds a line that has not been read
InCmdQueue(j) ==
    \E k \in 0..(Len(CmdQueueSeq(transport)) - 1) :
        j = (transport.cmdTail + k) % SERIAL_CMD_QUEUE_SIZE

\* slot i of the receive ring holds a frame that has not been taken
InRing(i) ==
    \E k \in 0..(Len(RxRingSeq(slcan)) - 1) : i = (slcan.rxTail + k) % CAN_RX_QUEUE_SIZE

\* C35: while loop() is called again and again and the host sink takes
\* every write, a line in the command queue is eventually read and
\* dispatched and a frame in the receive ring is eventually taken and
\* written to the host, with lines and frames arriving without end; no
\* frame is dropped on the way.
C35_NoStarvation ==
    /\ \A j \in 0..(SERIAL_CMD_QUEUE_SIZE - 1) :
          InCmdQueue(j) ~> (~InCmdQueue(j) /\ cmdBuffer = transport.cmdQueue[j].buffer)
    /\ \A i \in 0..(CAN_RX_QUEUE_SIZE - 1) :
          InRing(i) ~> (~InRing(i) /\ hostOut # <<>>)
    /\ [](slcan.canRxDropCount = 0)

\* a poll has written its full number of frames while lines wait in the
\* queue and frames in the ring and the controller, lines and frames
\* having arrived faster than they are taken
C35_Witness ==
    /\ Len(hostOut) = MAX_FRAMES_PER_POLL
    /\ Len(RxRingSeq(slcan)) >= 1
    /\ hw.rx # <<>>
    /\ slcan.rxOverflowCount > 0
    /\ Len(CmdQueueSeq(transport)) >= 1
    /\ transport.cmdOverflowCount > 0

\* C36: the command queue buffers up to SERIAL_CMD_QUEUE_SIZE complete
\* lines: whenever fewer than SERIAL_CMD_QUEUE_SIZE lines are queued and not
\* yet read, a terminator after a non-empty line enqueues that line and
\* counts no overflow.
C36_QueueHoldsSizeLines ==
    [][transport' # transport \/ serial'.incoming = <<>>
       => \A k \in 1..Len(serial.incoming) :
             LET before == Drained(k - 1)
                 after  == Drained(k)
             IN  /\ serial.incoming[k] \in {"CR", "LF"}
                 /\ before.rxAccumulator # <<>>
                 /\ Len(CmdQueueSeq(before)) < SERIAL_CMD_QUEUE_SIZE
                 => /\ CmdQueueSeq(after)
                         = Append(CmdQueueSeq(before), before.rxAccumulator)
                    /\ after.cmdOverflowCount = before.cmdOverflowCount]_vars

\* the text is made of one byte value and has at most max bytes
OneLine(text, max) ==
    /\ Len(text) <= max
    /\ \A i, j \in 1..Len(text) : text[i] = text[j]

\* C37: a line longer than the accumulator is truncated, not split: a byte
\* arriving at a full accumulator is dropped and counted and changes
\* nothing else, any other line byte is appended; a terminator enqueues at
\* most one command, the accumulated first bytes of the line.  So every
\* command holds at most SERIAL_RX_BUFFER_SIZE - 1 bytes, all of one host
\* line, and a later command never holds a byte of an earlier line.
C37_LongLineTruncated ==
    /\ [](/\ OneLine(transport.rxAccumulator, SERIAL_RX_BUFFER_SIZE - 1)
          /\ \A i \in 1..Len(CmdQueueSeq(transport)) :
                /\ OneLine(CmdQueueSeq(transport)[i], SERIAL_RX_BUFFER_SIZE - 1)
                /\ \A j \in 1..(i - 1) :
                      ReturnedLineNo(CmdQueueSeq(transport)[j])
                          < ReturnedLineNo(CmdQueueSeq(transport)[i]))
    /\ [][transport' # transport \/ serial'.incoming = <<>>
          => \A k \in 1..Len(serial.incoming) :
                LET before == Drained(k - 1)
                    after  == Drained(k)
                IN  IF serial.incoming[k] \in {"CR", "LF"}
                    THEN \/ CmdQueueSeq(after) = CmdQueueSeq(before)
                         \/ CmdQueueSeq(after)
                              = Append(CmdQueueSeq(before), before.rxAccumulator)
                    ELSE IF Len(before.rxAccumulator) >= SERIAL_RX_BUFFER_SIZE - 1
                    THEN after = [before EXCEPT !.cmdOverflowCount = @ + 1]
                    ELSE after = [before EXCEPT
                                     !.rxAccumulator = Append(@, serial.incoming[k])]]_vars

\* the host's first line was one byte longer than the accumulator; it was
\* returned cut to the accumulator's size, with the one dropped byte counted
C37_Witness ==
    /\ serial.lineNo = 2
    /\ serial.lineLen = 0
    /\ ~serial.bareSent
    /\ serial.incoming = <<>>
    /\ ret = TRUE
    /\ cmdBuffer = [i \in 1..(SERIAL_RX_BUFFER_SIZE - 1) |-> "1"]
    /\ transport.cmdOverflowCount = 1
    /\ CmdQueueSeq(transport) = <<>>

\* C38: the handler's channel state agrees with the controller at every
\* moment: Closed exactly when the controller is not open, Open exactly
\* when it is open in normal mode, ListenOnly exactly when it is open in
\* listen-only mode; a failed open leaves both closed.
C38_StateAgreesWithController ==
    /\ (slcan.state = "Closed") <=> ~can.isOpen
    /\ (slcan.state = "Open") <=> (can.isOpen /\ can.mode = "Normal")
    /\ (slcan.state = "ListenOnly") <=> (can.isOpen /\ can.mode = "ListenOnly")

\* after a listen-only session was closed, an O command failed in the
\* device: the error is answered and handler and controller are closed
C38_Witness ==
    /\ cmdBuffer = <<"O">>
    /\ responseBuffer = setError
    /\ slcan.state = "Closed"
    /\ ~can.isOpen
    /\ can.mode = "ListenOnly"

\* C39: frames left in the receive ring when the channel is closed are not
\* forwarded in a later session.  The ring is filled by poll alone, so at
\* the first poll after a successful O or L the ring holds what an earlier
\* session left: none of the frames this poll writes to the host was in
\* the ring before it.
C39_NoFrameFromEarlierSession ==
    [][/\ LoopPoll
       /\ cmdsProcessed > 0
       /\ cmdBuffer \in {<<"O">>, <<"L">>}
       /\ responseBuffer = setOk
       /\ slcan.state # "Closed"
       => \A k \in (Len(hostOut) + 1)..Len(hostOut') :
             \A i \in 1..Len(RxRingSeq(slcan)) :
                LineNum(hostOut'[k]) # RxNum(RxRingSeq(slcan)[i])]_vars

\* C40: the configured rate is at every moment one of the presets the
\* controller supports, so an O or L command received while Closed fails
\* only when the device fails to initialize: with the device initializing
\* it opens the channel and answers OK, with the device failing it answers
\* the error marker and the channel stays Closed.
C40_OpenFailsOnlyInDevice ==
    /\ [](isBitrateSupported(slcan.configuredBitrate))
    /\ [][\A cmd \in {<<"O">>, <<"L">>} :
            /\ Command(cmd, TRUE) /\ slcan.state = "Closed"
                  => /\ slcan'.state = (IF cmd = <<"O">> THEN "Open" ELSE "ListenOnly")
                     /\ can'.isOpen
                     /\ responseBuffer' = setOk
            /\ Command(cmd, FALSE) /\ slcan.state = "Closed"
                  => /\ slcan'.state = "Closed"
                     /\ ~can'.isOpen
                     /\ responseBuffer' = setError]_vars

\* with S8 stored after a session at the default rate, an L received while
\* Closed failed in the device
C40_Witness ==
    /\ slcan.configuredBitrate = 8
    /\ can.bitrate = 6
    /\ can.mode = "Normal"
    /\ cmdBuffer = <<"L">>
    /\ responseBuffer = setError
    /\ slcan.state = "Closed"
    /\ ~can.isOpen

====
